---- MODULE Spec2Model ----
(***************************************************************************)
(* Task repository of the task-management CLI: the TaskManager cache       *)
(* (_tasks, _task_list) over the DatabaseHandler's "tasks" collection.     *)
(*                                                                         *)
(* Conventions of the model:                                               *)
(*   - a Python str that is an input, a title, a description or an id is a *)
(*     tuple of one-character strings, so that strip(), lower() and        *)
(*     startswith() are computed, not assumed; the six enum values of Task *)
(*     are the strings the validators' maps return;                        *)
(*   - Optional[T] is a tuple of length 0 (None) or 1 (the value);         *)
(*   - a datetime is a natural number (a tick of the clock);               *)
(*   - a Task object is a reference (a positive number) into heap, so that *)
(*     _tasks and _task_list can share one object, as in the source.       *)
(***************************************************************************)
EXTENDS Integers, Sequences, FiniteSets, TLC

VARIABLES
  store,       \* the documents of the "tasks" collection, in scan order
  _tasks,      \* TaskManager._tasks
  _task_list,  \* TaskManager._task_list
  heap,        \* the live Task objects
  call,        \* the last call of a TaskManager method and how it ended
  held,        \* the list a caller holds: what get_all_tasks, filter_tasks
               \* or sort_tasks last returned to it
  _running,           \* TaskManagementCLI._running
  _background_stats,  \* TaskManagementCLI._background_stats
  main,        \* the main thread inside a method: where it is, its locals
  background,  \* the background thread: where it is in its loop, its locals
  _client,     \* DatabaseHandler._client
  _database,   \* DatabaseHandler._database
  _collection, \* DatabaseHandler._collection
  server,      \* the MongoDB server: "up" or "down"
  disconnected \* history: disconnect() was called and no connect() has
               \* returned True since

\* The handler, its server and its history.
Db == <<_client, _database, _collection, server, disconnected>>

vars == <<store, _tasks, _task_list, heap, call, held,
          _running, _background_stats, main, background, Db>>

(***************************************************************************)
(* Bounds of the model.                                                    *)
(***************************************************************************)
\* The number of documents the collection may hold (add_task is not offered
\* beyond it): under Spec, and under SpecIds.
MaxTasks == 2
MaxIdTasks == 3
\* The number of tasks in the cache that filter_tasks and sort_tasks are
\* applied to, under SpecQuery.
MaxQueryTasks == 4
MaxThreadTasks == 1

(***************************************************************************)
(* Python values.                                                          *)
(***************************************************************************)
None == <<>>
Some(v) == <<v>>

Range(s) == {s[i] : i \in DOMAIN s}

UpperChars == <<"A","B","C","D","E","F","G","H","I","J","K","L","M",
                "N","O","P","Q","R","S","T","U","V","W","X","Y","Z">>
LowerChars == <<"a","b","c","d","e","f","g","h","i","j","k","l","m",
                "n","o","p","q","r","s","t","u","v","w","x","y","z">>

\* str.lower() on one character.
LowerOf ==
  [c \in Range(UpperChars) |->
     LowerChars[CHOOSE i \in DOMAIN UpperChars : UpperChars[i] = c]]
LowerChar(c) == IF c \in DOMAIN LowerOf THEN LowerOf[c] ELSE c

\* str.lower()
Lower(s) == [i \in 1..Len(s) |-> LowerChar(s[i])]

\* str.strip(): leading and trailing whitespace removed.
RECURSIVE LStrip(_)
LStrip(s) == IF s # <<>> /\ Head(s) = " " THEN LStrip(Tail(s)) ELSE s
RECURSIVE RStrip(_)
RStrip(s) ==
  IF s # <<>> /\ s[Len(s)] = " " THEN RStrip(SubSeq(s, 1, Len(s) - 1)) ELSE s
Strip(s) == RStrip(LStrip(s))

\* str.startswith(prefix)
StartsWith(s, prefix) ==
  Len(prefix) <= Len(s) /\ SubSeq(s, 1, Len(prefix)) = prefix

\* The elements of s that are in keep, in the order of s.
RECURSIVE Filter(_, _)
Filter(s, keep) ==
  IF s = <<>> THEN <<>>
  ELSE IF Head(s) \in keep THEN <<Head(s)>> \o Filter(Tail(s), keep)
       ELSE Filter(Tail(s), keep)

(***************************************************************************)
(* Task: the enum lists of the class.                                      *)
(***************************************************************************)
VALID_PRIORITIES == <<"Low", "Medium", "High">>
VALID_STATUSES == <<"Pending", "In Progress", "Completed">>

TaskFields ==
  {"task_id", "title", "description", "due_date", "priority", "status", "created_at"}

\* A validator or setter either returns a value or raises.
Ok(v) == [ok |-> TRUE, val |-> v, exc |-> ""]
Raise(e) == [ok |-> FALSE, val |-> <<>>, exc |-> e]

(***************************************************************************)
(* Validators (validators.py).                                             *)
(***************************************************************************)
\* A validate_title that returns the title as it was given.
validate_title_Untrimmed(title) ==
  IF title = <<>> \/ Strip(title) = <<>> THEN Raise("ValueError")
  ELSE Ok(title)

validate_title(title) ==
  IF title = <<>> \/ Strip(title) = <<>> THEN Raise("ValueError")
  ELSE Ok(Strip(title))

\* description is Optional[str].
validate_description(description) ==
  IF description # None /\ description[1] # <<>> /\ Strip(description[1]) # <<>>
  THEN Strip(description[1])
  ELSE <<>>

\* priority_map: the lower-case text of each priority to the priority.
priority_map ==
  (<<"l","o","w">> :> "Low") @@ (<<"m","e","d","i","u","m">> :> "Medium")
    @@ (<<"h","i","g","h">> :> "High")

\* A validate_priority that takes any text for a priority.
validate_priority_AnyText(priority) ==
  LET priority_lower == Lower(Strip(priority))
  IN  IF priority_lower \in DOMAIN priority_map THEN Ok(priority_map[priority_lower])
      ELSE Ok("Low")

\* The loop that follows the lookup in the source compares priority_lower
\* with the lower-cased names of the same three priorities, the keys of
\* priority_map: it finds nothing the lookup did not.
validate_priority(priority) ==
  LET priority_lower == Lower(Strip(priority))
  IN  IF priority_lower \in DOMAIN priority_map THEN Ok(priority_map[priority_lower])
      ELSE Raise("ValueError")

\* status_map: the lower-case text of each status to the status.
status_map ==
  (<<"p","e","n","d","i","n","g">> :> "Pending")
    @@ (<<"i","n"," ","p","r","o","g","r","e","s","s">> :> "In Progress")
    @@ (<<"c","o","m","p","l","e","t","e","d">> :> "Completed")

validate_status(status) ==
  LET status_lower == Lower(Strip(status))
  IN  IF status_lower \in DOMAIN status_map THEN Ok(status_map[status_lower])
      ELSE Raise("ValueError")

(***************************************************************************)
(* Task (task.py).  A Task's fields are a record over TaskFields.          *)
(***************************************************************************)
\* Task.__init__: status defaults to Pending, created_at to datetime.now().
\* status and created_at are Optional; now is what datetime.now() returns.
TaskInit(task_id, title, description, due_date, priority, status, created_at, now) ==
  [task_id     |-> task_id,
   title       |-> title,
   description |-> description,
   due_date    |-> due_date,
   priority    |-> priority,
   status      |-> IF status = None THEN "Pending" ELSE status[1],
   created_at  |-> IF created_at # None THEN created_at[1] ELSE now]

\* The property setters: each returns the changed Task or raises.
set_title(task, value) ==
  IF value = <<>> \/ Strip(value) = <<>> THEN Raise("ValueError")
  ELSE Ok([task EXCEPT !.title = Strip(value)])

set_description(task, value) ==
  Ok([task EXCEPT !.description = IF value # <<>> THEN value ELSE <<>>])

\* A datetime of the model is a natural number.
IsDatetime(value) == value \in Nat

set_due_date(task, value) ==
  IF ~IsDatetime(value) THEN Raise("TypeError")
  ELSE Ok([task EXCEPT !.due_date = value])

set_priority(task, value) ==
  IF value \notin Range(VALID_PRIORITIES) THEN Raise("ValueError")
  ELSE Ok([task EXCEPT !.priority = value])

set_status(task, value) ==
  IF value \notin Range(VALID_STATUSES) THEN Raise("ValueError")
  ELSE Ok([task EXCEPT !.status = value])

\* A to_dict that leaves the status out.
to_dict_NoStatus(task) == [f \in TaskFields \ {"status"} |-> task[f]]

\* Task.to_dict: the seven fields under their names.
to_dict(task) ==
  [task_id     |-> task.task_id,
   title       |-> task.title,
   description |-> task.description,
   due_date    |-> task.due_date,
   priority    |-> task.priority,
   status      |-> task.status,
   created_at  |-> task.created_at]

\* A from_dict that leaves created_at to Task.__init__.
from_dict_Now(data, now) ==
  TaskInit(data.task_id, data.title, data.description, data.due_date, data.priority,
           IF "status" \in DOMAIN data THEN Some(data.status) ELSE Some("Pending"),
           None, now)

\* Task.from_dict: status and created_at are read with dict.get.
from_dict(data, now) ==
  TaskInit(data.task_id, data.title, data.description, data.due_date, data.priority,
           IF "status" \in DOMAIN data THEN Some(data.status) ELSE Some("Pending"),
           IF "created_at" \in DOMAIN data THEN Some(data.created_at) ELSE None,
           now)

(***************************************************************************)
(* DatabaseHandler (database_handler.py).  The collection is the sequence  *)
(* store of documents, in the order find({}) returns them; env is what the *)
(* server does on this call: "ok", "down" (the is_connected probe fails)   *)
(* or "error" (the probe passes and the operation itself raises).          *)
(***************************************************************************)
StoreEnvs == {"ok", "down", "error"}

is_connected(env) == env # "down"

\* The positions of the documents with this task_id (the unique index keeps
\* them to at most one).
DocsWithId(coll, task_id) == {i \in DOMAIN coll : coll[i].task_id = task_id}

\* Each returns [exc, cause, store, ret]: the exception raised ("" for none),
\* the collection afterwards and the value returned.
DbResult(exc, cause, coll, ret) ==
  [exc |-> exc, cause |-> cause, store |-> coll, ret |-> ret]

\* insert_one answering without having stored the document.
insert_task_Lost(coll, task, env) == DbResult("", "", coll, <<>>)

insert_task(coll, task, env) ==
  IF ~is_connected(env) THEN DbResult("ConnectionError", "Database not connected", coll, <<>>)
  ELSE IF env = "error" THEN DbResult("Exception", "Failed to insert task", coll, <<>>)
  ELSE IF DocsWithId(coll, task.task_id) # {}
       THEN DbResult("ValueError", "already exists", coll, <<>>)
  ELSE DbResult("", "", Append(coll, to_dict(task)), <<>>)

get_all_tasks_db(coll, env, now) ==
  IF ~is_connected(env) THEN DbResult("ConnectionError", "Database not connected", coll, <<>>)
  ELSE IF env = "error" THEN DbResult("Exception", "Failed to retrieve tasks", coll, <<>>)
  ELSE DbResult("", "", coll, [i \in DOMAIN coll |-> from_dict(coll[i], now)])

\* An update that empties the description of the document it writes to.
SetFields_Reset(doc, update_data) ==
  [f \in DOMAIN doc \cup DOMAIN update_data |->
     IF f \in DOMAIN update_data THEN update_data[f]
     ELSE IF f = "description" THEN <<>> ELSE doc[f]]

\* update_one({"task_id": task_id}, {"$set": update_data}): update_data is a
\* function from the names of the fields to set to their values.
SetFields(doc, update_data) ==
  [f \in DOMAIN doc \cup DOMAIN update_data |->
     IF f \in DOMAIN update_data THEN update_data[f] ELSE doc[f]]

update_task_db(coll, task_id, update_data, env) ==
  IF ~is_connected(env) THEN DbResult("ConnectionError", "Database not connected", coll, <<>>)
  ELSE IF env = "error" THEN DbResult("Exception", "Failed to update task", coll, <<>>)
  ELSE DbResult("", "",
                [i \in DOMAIN coll |->
                   IF coll[i].task_id = task_id THEN SetFields(coll[i], update_data)
                   ELSE coll[i]],
                <<>>)

delete_task_db(coll, task_id, env) ==
  IF ~is_connected(env) THEN DbResult("ConnectionError", "Database not connected", coll, <<>>)
  ELSE IF env = "error" THEN DbResult("Exception", "Failed to delete task", coll, <<>>)
  ELSE DbResult("", "",
                Filter(coll, {d \in Range(coll) : d.task_id # task_id}),
                <<>>)

(***************************************************************************)
(* TaskManager (task_manager.py).  _tasks is the dict, a sequence of       *)
(* [key, val] items in insertion order; _task_list is the list; both hold  *)
(* references into heap.                                                   *)
(***************************************************************************)
DictHas(d, k) == \E i \in DOMAIN d : d[i].key = k
DictGet(d, k) == d[CHOOSE i \in DOMAIN d : d[i].key = k].val
\* A d[k] = v that stores nothing.
DictSet_Lost(d, k, v) == d
\* d[k] = v: a present key keeps its place, a new key goes last.
DictSet(d, k, v) ==
  IF DictHas(d, k)
  THEN [i \in DOMAIN d |-> IF d[i].key = k THEN [key |-> k, val |-> v] ELSE d[i]]
  ELSE Append(d, [key |-> k, val |-> v])
\* A del d[k] that deletes nothing.
DictDel_Keep(d, k) == d
\* del d[k]
DictDel(d, k) == Filter(d, {e \in Range(d) : e.key # k})

\* The objects the cache refers to.
CacheRefs(d, l) == {d[i].val : i \in DOMAIN d} \cup Range(l)

\* A new object: the least reference not in use.
NewRef(h) ==
  CHOOSE r \in 1..(Cardinality(DOMAIN h) + 1) :
    r \notin DOMAIN h /\ \A q \in 1..(r - 1) : q \in DOMAIN h

\* An object no one refers to any more is gone.
Collect(h, d, l) == [r \in DOMAIN h \cap CacheRefs(d, l) |-> h[r]]

\* What a method leaves behind: the store, the cache, and what it returned
\* (ret: "True", "False", "Task" or "" when it raised; task: the Task
\* returned) or raised (exc, and cause, the text of its message without the
\* values in it).  full_task_id is the local of that name: the id of the
\* task get_task resolved, None when the method has no such local or did
\* not get to it.
Outcome(coll, d, l, h, ret, exc, cause, task, full_task_id) ==
  [store |-> coll, _tasks |-> d, _task_list |-> l, heap |-> h,
   ret |-> ret, exc |-> exc, cause |-> cause, task |-> task,
   full_task_id |-> full_task_id]

\* A get_task that knows full ids only.
get_task_ExactOnly(d, task_id) ==
  IF DictHas(d, task_id) THEN Some(DictGet(d, task_id)) ELSE None

\* A get_task that finds nothing for the empty string.
get_task_NotEmpty(d, task_id) ==
  IF task_id = <<>> THEN None
  ELSE IF DictHas(d, task_id) THEN Some(DictGet(d, task_id))
  ELSE LET task_id_lower == Lower(task_id)
           hits == {i \in DOMAIN d : StartsWith(Lower(d[i].key), task_id_lower)}
       IN  IF hits = {} THEN None
           ELSE Some(d[CHOOSE i \in hits : \A j \in hits : i <= j].val)

\* get_task: the exact key first, then the first key, in dict order, that
\* starts with task_id, both lower-cased.
get_task(d, task_id) ==
  IF DictHas(d, task_id) THEN Some(DictGet(d, task_id))
  ELSE LET task_id_lower == Lower(task_id)
           hits == {i \in DOMAIN d : StartsWith(Lower(d[i].key), task_id_lower)}
       IN  IF hits = {} THEN None
           ELSE Some(d[CHOOSE i \in hits : \A j \in hits : i <= j].val)

get_all_tasks(l) == l

get_task_count(l) == Len(l)

\* The loop of load_tasks_from_db over the first n loaded tasks: task i is
\* the new object i.
RECURSIVE LoadDict(_, _)
LoadDict(tasks, n) ==
  IF n = 0 THEN <<>>
  ELSE DictSet(LoadDict(tasks, n - 1), tasks[n].task_id, n)

\* A load that leaves the cache as it finds it.
load_tasks_from_db_Keep(coll, d, l, h, env, now) ==
  LET r == get_all_tasks_db(coll, env, now)
  IN  Outcome(coll, d, l, h, IF r.exc # "" THEN "False" ELSE "True", "", <<>>,
              None, None)

load_tasks_from_db(coll, d, l, h, env, now) ==
  LET r == get_all_tasks_db(coll, env, now)
  IN  IF r.exc # "" THEN Outcome(coll, d, l, h, "False", "", <<>>, None, None)
      ELSE Outcome(coll, LoadDict(r.ret, Len(r.ret)),
                   [i \in 1..Len(r.ret) |-> i],
                   [i \in 1..Len(r.ret) |-> r.ret[i]],
                   "True", "", <<>>, None, None)

\* The text of add_task's default for status, and of mark_completed's argument.
PendingText == <<"P","e","n","d","i","n","g">>
CompletedText == <<"C","o","m","p","l","e","t","e","d">>

\* An add_task that puts the new task in the dict and not in the list.
add_task_MapOnly(coll, d, l, h, inp, task_id, now, env) ==
  LET title == validate_title(inp.title)
      description == validate_description(inp.description)
      priority == validate_priority(inp.priority)
      status == validate_status(IF inp.status = None THEN PendingText
                                ELSE inp.status[1])
  IN  IF ~title.ok \/ ~priority.ok \/ ~status.ok
      THEN Outcome(coll, d, l, h, "", "ValueError", <<"validation">>, None, None)
      ELSE
        LET task == TaskInit(task_id, title.val, description, inp.due_date,
                             priority.val, Some(status.val), None, now)
            r == insert_task(coll, task, env)
            ref == NewRef(h)
        IN  IF r.exc = ""
            THEN Outcome(r.store, DictSet(d, task_id, ref), l,
                         (ref :> task) @@ h, "Task", "", <<>>, Some(ref), None)
            ELSE IF r.exc = "ValueError"
            THEN Outcome(coll, d, l, h, "", "ValueError",
                         <<"Cannot add task", r.cause>>, None, None)
            ELSE Outcome(coll, d, l, h, "", "Exception",
                         <<"Database error", r.cause>>, None, None)

\* add_task: inp holds title, description, due_date, priority and the
\* Optional status; task_id is what uuid4 returns, now what datetime.now() does.
add_task(coll, d, l, h, inp, task_id, now, env) ==
  LET title == validate_title(inp.title)
      description == validate_description(inp.description)
      priority == validate_priority(inp.priority)
      status == validate_status(IF inp.status = None THEN PendingText
                                ELSE inp.status[1])
  IN  IF ~title.ok \/ ~priority.ok \/ ~status.ok
      THEN Outcome(coll, d, l, h, "", "ValueError", <<"validation">>, None, None)
      ELSE
        LET task == TaskInit(task_id, title.val, description, inp.due_date,
                             priority.val, Some(status.val), None, now)
            r == insert_task(coll, task, env)
            ref == NewRef(h)
        IN  IF r.exc = ""
            THEN Outcome(r.store, DictSet(d, task_id, ref), Append(l, ref),
                         (ref :> task) @@ h, "Task", "", <<>>, Some(ref), None)
            ELSE IF r.exc = "ValueError"
            THEN Outcome(coll, d, l, h, "", "ValueError",
                         <<"Cannot add task", r.cause>>, None, None)
            ELSE Outcome(coll, d, l, h, "", "Exception",
                         <<"Database error", r.cause>>, None, None)

\* update_task, the assignments to the live task: each provided field is
\* validated, assigned through its setter and added to update_data, in the
\* order of the source; a raise ends the method with what was assigned so
\* far left on the task.  st is [task, update_data, exc].
UpdState(task, update_data, exc) ==
  [task |-> task, update_data |-> update_data, exc |-> exc]

\* A block that passes over a value that does not validate.
Assign_Swallow(st, field, value, set) ==
  IF ~value.ok \/ ~set.ok THEN st
  ELSE UpdState(set.val, (field :> set.val[field]) @@ st.update_data, "")

\* One "if x is not None:" block: value is the validated value (or a raise),
\* set the setter's result for it.
Assign(st, field, value, set) ==
  IF ~value.ok THEN UpdState(st.task, st.update_data, value.exc)
  ELSE IF ~set.ok THEN UpdState(st.task, st.update_data, set.exc)
  ELSE UpdState(set.val, (field :> set.val[field]) @@ st.update_data, "")

UpdTitle(st, inp) ==
  IF st.exc # "" \/ inp.title = None THEN st
  ELSE LET v == validate_title(inp.title[1])
       IN  Assign(st, "title", v, IF v.ok THEN set_title(st.task, v.val) ELSE v)

UpdDescription(st, inp) ==
  IF st.exc # "" \/ inp.description = None THEN st
  ELSE LET v == Ok(validate_description(inp.description))
       IN  Assign(st, "description", v, set_description(st.task, v.val))

\* update_data["due_date"] is the argument itself.
UpdDueDate(st, inp) ==
  IF st.exc # "" \/ inp.due_date = None THEN st
  ELSE LET set == set_due_date(st.task, inp.due_date[1])
       IN  IF ~set.ok THEN UpdState(st.task, st.update_data, set.exc)
           ELSE UpdState(set.val, ("due_date" :> inp.due_date[1]) @@ st.update_data, "")

UpdPriority(st, inp) ==
  IF st.exc # "" \/ inp.priority = None THEN st
  ELSE LET v == validate_priority(inp.priority[1])
       IN  Assign(st, "priority", v, IF v.ok THEN set_priority(st.task, v.val) ELSE v)

UpdStatus(st, inp) ==
  IF st.exc # "" \/ inp.status = None THEN st
  ELSE LET v == validate_status(inp.status[1])
       IN  Assign(st, "status", v, IF v.ok THEN set_status(st.task, v.val) ELSE v)

\* The five blocks in the order of the source.
UpdFields(task, inp) ==
  UpdStatus(UpdPriority(UpdDueDate(UpdDescription(UpdTitle(
    UpdState(task, <<>>, ""), inp), inp), inp), inp), inp)

\* An update_task that puts the task back as it was when a field does not
\* validate.
update_task_Rollback(coll, d, l, h, task_id, inp, env) ==
  LET task == get_task(d, task_id)
  IN  IF task = None THEN Outcome(coll, d, l, h, "False", "", <<>>, None, None)
      ELSE
        LET ref == task[1]
            full_task_id == h[ref].task_id
            st == UpdFields(h[ref], inp)
            h2 == [h EXCEPT ![ref] = st.task]
        IN  IF st.exc # ""
            THEN Outcome(coll, d, l, h, "", st.exc, <<"validation">>, None, Some(full_task_id))
            ELSE IF DOMAIN st.update_data = {}
            THEN Outcome(coll, d, l, h2, "True", "", <<>>, None, Some(full_task_id))
            ELSE LET r == update_task_db(coll, full_task_id, st.update_data, env)
                 IN  IF r.exc # ""
                     THEN Outcome(coll, d, l, h2, "", "Exception",
                                  <<"Database error", r.cause>>, None, Some(full_task_id))
                     ELSE Outcome(r.store, d, l, h2, "True", "", <<>>, None,
                                  Some(full_task_id))

\* An update_task that hands the handler the identifier it was given and not
\* the task's full id.
update_task_GivenId(coll, d, l, h, task_id, inp, env) ==
  LET task == get_task(d, task_id)
  IN  IF task = None THEN Outcome(coll, d, l, h, "False", "", <<>>, None, None)
      ELSE
        LET ref == task[1]
            full_task_id == h[ref].task_id
            st == UpdFields(h[ref], inp)
            h2 == [h EXCEPT ![ref] = st.task]
        IN  IF st.exc # ""
            THEN Outcome(coll, d, l, h2, "", st.exc, <<"validation">>, None, Some(full_task_id))
            ELSE IF DOMAIN st.update_data = {}
            THEN Outcome(coll, d, l, h2, "True", "", <<>>, None, Some(full_task_id))
            ELSE LET r == update_task_db(coll, task_id, st.update_data, env)
                 IN  IF r.exc # ""
                     THEN Outcome(coll, d, l, h2, "", "Exception",
                                  <<"Database error", r.cause>>, None, Some(full_task_id))
                     ELSE Outcome(r.store, d, l, h2, "True", "", <<>>, None,
                                  Some(full_task_id))

\* An update_task without the "if update_data:" test: it calls the handler
\* with an empty update too.
update_task_AlwaysWrite(coll, d, l, h, task_id, inp, env) ==
  LET task == get_task(d, task_id)
  IN  IF task = None THEN Outcome(coll, d, l, h, "False", "", <<>>, None, None)
      ELSE
        LET ref == task[1]
            full_task_id == h[ref].task_id
            st == UpdFields(h[ref], inp)
            h2 == [h EXCEPT ![ref] = st.task]
        IN  IF st.exc # ""
            THEN Outcome(coll, d, l, h2, "", st.exc, <<"validation">>, None, Some(full_task_id))
            ELSE LET r == update_task_db(coll, full_task_id, st.update_data, env)
                 IN  IF r.exc # ""
                     THEN Outcome(coll, d, l, h2, "", "Exception",
                                  <<"Database error", r.cause>>, None, Some(full_task_id))
                     ELSE Outcome(r.store, d, l, h2, "True", "", <<>>, None,
                                  Some(full_task_id))

\* update_task: inp holds the five Optional fields.
update_task(coll, d, l, h, task_id, inp, env) ==
  LET task == get_task(d, task_id)
  IN  IF task = None THEN Outcome(coll, d, l, h, "False", "", <<>>, None, None)
      ELSE
        LET ref == task[1]
            full_task_id == h[ref].task_id
            st == UpdFields(h[ref], inp)
            h2 == [h EXCEPT ![ref] = st.task]
        IN  IF st.exc # ""
            THEN Outcome(coll, d, l, h2, "", st.exc, <<"validation">>, None, Some(full_task_id))
            ELSE IF DOMAIN st.update_data = {}
            THEN Outcome(coll, d, l, h2, "True", "", <<>>, None, Some(full_task_id))
            ELSE LET r == update_task_db(coll, full_task_id, st.update_data, env)
                 IN  IF r.exc # ""
                     THEN Outcome(coll, d, l, h2, "", "Exception",
                                  <<"Database error", r.cause>>, None, Some(full_task_id))
                     ELSE Outcome(r.store, d, l, h2, "True", "", <<>>, None,
                                  Some(full_task_id))

\* The arguments mark_completed passes on: status="Completed", the rest None.
MarkCompletedInput ==
  [title |-> None, description |-> None, due_date |-> None, priority |-> None,
   status |-> Some(CompletedText)]

\* A mark_completed that sets the status before Completed.
mark_completed_InProgress(coll, d, l, h, task_id, env) ==
  update_task(coll, d, l, h, task_id,
              [MarkCompletedInput EXCEPT
                 !.status = Some(<<"I","n"," ","P","r","o","g","r","e","s","s">>)],
              env)

mark_completed(coll, d, l, h, task_id, env) ==
  update_task(coll, d, l, h, task_id, MarkCompletedInput, env)

\* A delete_task that returns False when the store fails.
delete_task_Quiet(coll, d, l, h, task_id, env) ==
  LET task == get_task(d, task_id)
  IN  IF task = None \/ env # "ok"
      THEN Outcome(coll, d, l, h, "False", "", <<>>, None, None)
      ELSE
        LET full_task_id == h[task[1]].task_id
            d2 == DictDel(d, full_task_id)
            l2 == Filter(l, {x \in Range(l) : h[x].task_id # full_task_id})
        IN  Outcome(delete_task_db(coll, full_task_id, env).store, d2, l2,
                    Collect(h, d2, l2), "True", "", <<>>, None, Some(full_task_id))

delete_task(coll, d, l, h, task_id, env) ==
  LET task == get_task(d, task_id)
  IN  IF task = None THEN Outcome(coll, d, l, h, "False", "", <<>>, None, None)
      ELSE
        LET full_task_id == h[task[1]].task_id
            r == delete_task_db(coll, full_task_id, env)
            d2 == DictDel(d, full_task_id)
            l2 == Filter(l, {x \in Range(l) : h[x].task_id # full_task_id})
        IN  IF r.exc # ""
            THEN Outcome(coll, d, l, h, "", "Exception",
                         <<"Database error", r.cause>>, None, Some(full_task_id))
            ELSE IF ~DictHas(d, full_task_id)
            THEN Outcome(r.store, d, l, h, "", "Exception",
                         <<"Database error", "KeyError">>, None, Some(full_task_id))
            ELSE Outcome(r.store, d2, l2, Collect(h, d2, l2), "True", "", <<>>, None,
                         Some(full_task_id))

\* A date() that keeps the time of day.
date_WithTime(value) == value
\* datetime.date(): the day of a tick of the clock; a day has two ticks.
date(value) == value \div 2

\* The truth of an Optional[str] argument in "if x:": None and "" are false.
Truthy(arg) == arg # None /\ arg[1] # <<>>

\* list.copy(): a new list object with the same items.  A list given to a
\* caller is [alias, items]: alias tells whether it is the very object that
\* self._task_list is bound to.
\* A get_all_tasks that returns the list of the cache itself.
ListCopy_Same(items) == [alias |-> TRUE, items |-> items]

ListCopy(items) == [alias |-> FALSE, items |-> items]

\* [t for t in filtered if ...]: keep is the set of tasks that pass.
Comprehension(filtered, keep) == Filter(filtered, keep)

\* filter_tasks: crit holds the five Optional criteria.  The criteria are
\* applied one after the other, each to what the one before left.
filter_tasks(l, h, crit) ==
  LET priority == IF Truthy(crit.priority) THEN validate_priority(crit.priority[1])
                  ELSE Ok("")
      status == IF Truthy(crit.status) THEN validate_status(crit.status[1])
                ELSE Ok("")
      f1 == IF Truthy(crit.priority)
            THEN Comprehension(l, {t \in Range(l) : h[t].priority = priority.val})
            ELSE l
      f2 == IF Truthy(crit.status)
            THEN Comprehension(f1, {t \in Range(f1) : h[t].status = status.val})
            ELSE f1
      f3 == IF crit.due_date # None
            THEN Comprehension(f2, {t \in Range(f2) :
                                      date(h[t].due_date) = date(crit.due_date[1])})
            ELSE f2
      f4 == IF crit.due_date_before # None
            THEN Comprehension(f3, {t \in Range(f3) :
                                      h[t].due_date < crit.due_date_before[1]})
            ELSE f3
      f5 == IF crit.due_date_after # None
            THEN Comprehension(f4, {t \in Range(f4) :
                                      h[t].due_date > crit.due_date_after[1]})
            ELSE f4
  IN  IF ~priority.ok THEN Raise(priority.exc)
      ELSE IF ~status.ok THEN Raise(status.exc)
      ELSE Ok(f5)

\* The order of the characters in str comparison: that of their code points.
CodePoints == <<" ">> \o UpperChars \o LowerChars
Ord(c) == CHOOSE i \in DOMAIN CodePoints : CodePoints[i] = c

\* str.__lt__
RECURSIVE StrLess(_, _)
StrLess(a, b) ==
  IF b = <<>> THEN FALSE
  ELSE IF a = <<>> THEN TRUE
  ELSE IF Head(a) = Head(b) THEN StrLess(Tail(a), Tail(b))
  ELSE Ord(Head(a)) < Ord(Head(b))

valid_sort_fields == <<"created_at", "due_date", "priority", "status", "title">>
priority_order == ("High" :> 3) @@ ("Medium" :> 2) @@ ("Low" :> 1)
status_order == ("Pending" :> 1) @@ ("In Progress" :> 2) @@ ("Completed" :> 3)

\* A get_sort_key whose key for a title is the title as it is spelled.
get_sort_key_CaseSensitive(task, sort_by) ==
  IF sort_by = "priority"
  THEN IF task.priority \in DOMAIN priority_order THEN priority_order[task.priority] ELSE 0
  ELSE IF sort_by = "status"
  THEN IF task.status \in DOMAIN status_order THEN status_order[task.status] ELSE 0
  ELSE task[sort_by]

get_sort_key(task, sort_by) ==
  IF sort_by = "priority"
  THEN IF task.priority \in DOMAIN priority_order THEN priority_order[task.priority] ELSE 0
  ELSE IF sort_by = "status"
  THEN IF task.status \in DOMAIN status_order THEN status_order[task.status] ELSE 0
  ELSE IF sort_by = "title" THEN Lower(task.title)
  ELSE task[sort_by]

\* key(a) < key(b): the keys of a sort are both numbers or both strings.
KeyLess(a, b, h, sort_by) ==
  IF sort_by = "title"
  THEN StrLess(get_sort_key(h[a], sort_by), get_sort_key(h[b], sort_by))
  ELSE get_sort_key(h[a], sort_by) < get_sort_key(h[b], sort_by)

Reverse(s) == [i \in 1..Len(s) |-> s[Len(s) + 1 - i]]

\* list.sort is a stable merge of runs; on these short lists it is the
\* binary insertion it starts with: each item goes before the first item
\* of the sorted front whose key is greater than its own.
InsertSorted(s, x, h, sort_by) ==
  LET greater == {i \in DOMAIN s : KeyLess(x, s[i], h, sort_by)}
      p == IF greater = {} THEN Len(s) + 1
           ELSE CHOOSE i \in greater : \A j \in greater : i <= j
  IN  SubSeq(s, 1, p - 1) \o <<x>> \o SubSeq(s, p, Len(s))

RECURSIVE SortAscending(_, _, _)
SortAscending(l, h, sort_by) ==
  IF l = <<>> THEN <<>>
  ELSE InsertSorted(SortAscending(SubSeq(l, 1, Len(l) - 1), h, sort_by),
                    l[Len(l)], h, sort_by)

\* A reversed sort that sorts and then reverses the result.
sorted_ReverseAfter(l, h, sort_by, reverse) ==
  IF reverse THEN Reverse(SortAscending(l, h, sort_by))
  ELSE SortAscending(l, h, sort_by)

\* sorted(tasks, key=get_sort_key, reverse=reverse): with reverse the list
\* is reversed, sorted and reversed again, which keeps the sort stable.
sorted(l, h, sort_by, reverse) ==
  IF reverse THEN Reverse(SortAscending(Reverse(l), h, sort_by))
  ELSE SortAscending(l, h, sort_by)

\* A sort_tasks that sorts the other way round.
sort_tasks_Descending(tasks, h, sort_by, reverse) ==
  IF sort_by \notin Range(valid_sort_fields) THEN Raise("ValueError")
  ELSE Ok(sorted(tasks, h, sort_by, ~reverse))

sort_tasks(tasks, h, sort_by, reverse) ==
  IF sort_by \notin Range(valid_sort_fields) THEN Raise("ValueError")
  ELSE Ok(sorted(tasks, h, sort_by, reverse))

(***************************************************************************)
(* TaskManagementCLI.background_task_cleanup (cli.py): the statistics of   *)
(* one cycle, each a pass over the list get_all_tasks returned that reads  *)
(* the live tasks.                                                         *)
(***************************************************************************)
completed(tasks, h) ==
  Cardinality({i \in DOMAIN tasks : h[tasks[i]].status = "Completed"})

in_progress(tasks, h) ==
  Cardinality({i \in DOMAIN tasks : h[tasks[i]].status = "In Progress"})

pending(tasks, h) ==
  Cardinality({i \in DOMAIN tasks : h[tasks[i]].status = "Pending"})

\* t.due_date < now raises TypeError for a due_date that is no datetime.
overdue(tasks, h, now) ==
  IF \E i \in DOMAIN tasks : ~IsDatetime(h[tasks[i]].due_date) THEN Raise("TypeError")
  ELSE Ok(Cardinality({i \in DOMAIN tasks :
                         /\ h[tasks[i]].due_date < now
                         /\ h[tasks[i]].status # "Completed"}))

high_priority(tasks, h) ==
  Cardinality({i \in DOMAIN tasks :
                 /\ h[tasks[i]].priority = "High"
                 /\ h[tasks[i]].status # "Completed"})

\* The dict assigned to _background_stats.
Statistics(locals, timestamp) ==
  [timestamp |-> timestamp,
   total |-> locals.total_tasks,
   completed |-> locals.completed,
   in_progress |-> locals.in_progress,
   pending |-> locals.pending,
   overdue |-> locals.overdue,
   high_priority_pending |-> locals.high_priority]

(***************************************************************************)
(* The inputs of the model.                                                *)
(***************************************************************************)
\* What datetime.now() may return.
Times == {1, 2}

\* What one add_task draws from its surroundings: the id uuid4 returns (ids
\* of one length, in lower case, with a common first character) and the
\* time datetime.now() returns in Task.__init__.
Draws ==
  { [task_id |-> <<"a","b">>, now |-> 1],
    [task_id |-> <<"a","c">>, now |-> 2] }

\* The identifiers given to get_task: the empty string, the prefix the ids
\* share, a full id in upper case, a full id, and a string no id starts with.
Queries == {<<>>, <<"a">>, <<"A","C">>, <<"a","b">>, <<"c">>}

\* The same with a third id, the only one with its first character, and
\* that character, in upper case, among the identifiers.
IdDraws == Draws \cup { [task_id |-> <<"b","c">>, now |-> 2] }
IdQueries == Queries \cup { <<"B">>, <<"b","c">> }

AddInput(title, description, due_date, priority, status) ==
  [title |-> title, description |-> description, due_date |-> due_date,
   priority |-> priority, status |-> status]

\* add_task's arguments: a valid set of them (to be trimmed and put in the
\* enums' case), then a blank title, a priority and a status out of the enums.
AddInputs ==
  { AddInput(<<" ","x"," ">>, Some(<<"d"," ">>), 1, <<"h","i","g","h">>, None),
    AddInput(<<" ">>, Some(<<"d">>), 1, <<"H","i","g","h">>, None),
    AddInput(<<"x">>, Some(<<"d">>), 1, <<"U","r","g","e","n","t">>, None),
    AddInput(<<"x">>, None, 1, <<"L","o","w">>, Some(<<"D","o","n","e">>)) }

UpdateInput(title, description, due_date, priority, status) ==
  [title |-> title, description |-> description, due_date |-> due_date,
   priority |-> priority, status |-> status]

\* update_task's arguments: nothing; a status alone; all five fields, valid;
\* a valid title before a priority out of the enum; an empty title before a
\* valid status; a status out of the enum.
UpdateInputs ==
  { UpdateInput(None, None, None, None, None),
    UpdateInput(None, None, None, None,
                Some(<<"C","O","M","P","L","E","T","E","D"," ">>)),
    UpdateInput(Some(<<"z"," ">>), Some(<<" ","e">>), Some(2),
                Some(<<"m","e","d","i","u","m">>),
                Some(<<"i","n"," ","p","r","o","g","r","e","s","s">>)),
    UpdateInput(Some(<<"z">>), None, None, Some(<<"U","r","g","e","n","t">>), None),
    UpdateInput(Some(<<>>), None, None, None, Some(CompletedText)),
    UpdateInput(None, None, None, None, Some(<<"D","o","n","e">>)) }

\* The tasks of the caches that filter_tasks and sort_tasks are applied to:
\* two of a priority, two of a status, two due on one day at different
\* times, two created at one time, and titles that differ in case only.
QueryTask(task_id, title, due_date, priority, status, created_at) ==
  TaskInit(task_id, title, <<"d">>, due_date, priority, Some(status),
           Some(created_at), created_at)

QueryTasks ==
  { QueryTask(<<"a","b">>, <<"b">>, 2, "High", "Pending", 1),
    QueryTask(<<"a","c">>, <<"A">>, 3, "Low", "Completed", 2),
    QueryTask(<<"b","c">>, <<"a">>, 5, "High", "In Progress", 2),
    QueryTask(<<"b","d">>, <<"B">>, 2, "Medium", "Pending", 3) }

\* The lists of up to MaxQueryTasks of them, each at most once.
QueryLists ==
  UNION { { s \in [1..n -> QueryTasks] : \A i, j \in 1..n : s[i] = s[j] => i = j }
          : n \in 0..MaxQueryTasks }

FilterInput(priority, status, due_date, due_date_before, due_date_after) ==
  [priority |-> priority, status |-> status, due_date |-> due_date,
   due_date_before |-> due_date_before, due_date_after |-> due_date_after]

\* filter_tasks' arguments: no criterion; a priority; an empty priority; a
\* status; a priority and a status; a day, given by one of its times; a time
\* to be due before; one to be due after; a day and a time to be due after;
\* a priority out of the enum.
FilterInputs ==
  { FilterInput(None, None, None, None, None),
    FilterInput(Some(<<"h","i","g","h">>), None, None, None, None),
    FilterInput(Some(<<>>), None, None, None, None),
    FilterInput(None, Some(<<"P","e","n","d","i","n","g">>), None, None, None),
    FilterInput(Some(<<"H","i","g","h">>), Some(<<"p","e","n","d","i","n","g"," ">>),
                None, None, None),
    FilterInput(None, None, Some(3), None, None),
    FilterInput(None, None, None, Some(3), None),
    FilterInput(None, None, None, None, Some(2)),
    FilterInput(None, None, Some(2), None, Some(2)),
    FilterInput(Some(<<"U","r","g","e","n","t">>), None, None, None, None) }

\* sort_tasks' sort_by: the five fields and a name that is none of them.
SortFields == Range(valid_sort_fields) \cup {"task_id"}

(***************************************************************************)
(* The state machine: one call of a TaskManager method per step, made by   *)
(* the one foreground thread.  call records the last call: the method and  *)
(* what it returned or raised.                                             *)
(***************************************************************************)
Call(op, r) == [op |-> op, ret |-> r.ret, exc |-> r.exc, cause |-> r.cause]

\* The main thread at the menu, in no method.
AtMenu == [pc |-> "menu"]

\* The background thread before its first period, and after each cycle.
Waiting == [pc |-> "wait", tasks |-> <<>>, locals |-> <<>>, exc |-> ""]

\* TaskManagementCLI.__init__, and the thread as start_background_thread
\* starts it.
CLIInit ==
  /\ _running = TRUE
  /\ _background_stats = None
  /\ main = AtMenu
  /\ background = Waiting

\* main(): the handler is made and connect() has returned True, the server
\* being up.
Connected ==
  /\ _client = Some("MongoClient")
  /\ _database = Some("Database")
  /\ _collection = Some("Collection")
  /\ server = "up"
  /\ disconnected = FALSE

\* A method of the TaskManager run as one step, with no background thread
\* taking steps and the handler and the server as they are.
OneThread == UNCHANGED <<_running, _background_stats, main, background, Db>>

Apply(op, r) ==
  /\ store' = r.store
  /\ _tasks' = r._tasks
  /\ _task_list' = r._task_list
  /\ heap' = r.heap
  /\ call' = Call(op, r)
  /\ UNCHANGED held
  /\ OneThread

\* TaskManager.__init__ over a connected handler and an empty collection.
Init ==
  /\ store = <<>>
  /\ _tasks = <<>>
  /\ _task_list = <<>>
  /\ heap = <<>>
  /\ call = [op |-> "__init__", ret |-> "", exc |-> "", cause |-> <<>>]
  /\ held = None
  /\ CLIInit
  /\ Connected

LoadTasksFromDb ==
  \E env \in StoreEnvs, now \in Times :
    \E r \in {load_tasks_from_db(store, _tasks, _task_list, heap, env, now)} :
      Apply("load_tasks_from_db", r)

\* The collection and the cache hold at most MaxTasks tasks: no add_task
\* beyond that.
AddTask ==
  /\ Len(store) < MaxTasks
  /\ Len(_task_list) < MaxTasks
  /\ \E inp \in AddInputs, draw \in Draws, env \in StoreEnvs :
       \E r \in {add_task(store, _tasks, _task_list, heap, inp,
                           draw.task_id, draw.now, env)} :
         Apply("add_task", r)

\* add_task and delete_task over the three ids.
AddTaskIds ==
  /\ Len(store) < MaxIdTasks
  /\ \E inp \in AddInputs, draw \in IdDraws, env \in StoreEnvs :
       \E r \in {add_task(store, _tasks, _task_list, heap, inp,
                           draw.task_id, draw.now, env)} :
         Apply("add_task", r)

DeleteTaskIds ==
  \E task_id \in IdQueries, env \in StoreEnvs :
    \E r \in {delete_task(store, _tasks, _task_list, heap, task_id, env)} :
      Apply("delete_task", r)

\* Another client of the server the handler connects to: it deletes a
\* document of the collection, or inserts one (a task of an earlier run).
OtherClient ==
  /\ \/ \E i \in DOMAIN store :
          store' = [j \in 1..(Len(store) - 1) |->
                      IF j < i THEN store[j] ELSE store[j + 1]]
     \/ /\ Len(store) < MaxTasks
        /\ \E draw \in Draws :
             /\ DocsWithId(store, draw.task_id) = {}
             /\ store' = Append(store,
                            to_dict(TaskInit(draw.task_id, <<"y">>, <<>>, 2, "Low",
                                             Some("In Progress"), None, draw.now)))
  /\ UNCHANGED <<_tasks, _task_list, heap, call, held>>
  /\ OneThread

\* A TaskManager over a collection of an earlier run, its tasks loaded.
InitQuery ==
  \E tasks \in QueryLists :
    \E r \in {load_tasks_from_db([i \in DOMAIN tasks |-> to_dict(tasks[i])],
                                 <<>>, <<>>, <<>>, "ok", 1)} :
      /\ store = r.store
      /\ _tasks = r._tasks
      /\ _task_list = r._task_list
      /\ heap = r.heap
      /\ call = Call("load_tasks_from_db", r)
      /\ held = None
      /\ CLIInit
      /\ Connected

\* What a method that returns a list leaves behind: the caller holds the
\* list, or what it held before when the method raised.
Returned(op, r) ==
  /\ call' = [op |-> op, ret |-> IF r.ok THEN "List" ELSE "", exc |-> r.exc,
              cause |-> <<>>]
  /\ held' = IF r.ok THEN ListCopy(r.val) ELSE held
  /\ OneThread
  /\ UNCHANGED <<store, _tasks, _task_list, heap>>

FilterTasks ==
  \E crit \in FilterInputs :
    \E r \in {filter_tasks(_task_list, heap, crit)} :
      Returned("filter_tasks", r)

\* sort_tasks of the list of all tasks, or of the list the caller holds.
SortTasks ==
  \E tasks \in {get_all_tasks(_task_list)}
                 \cup (IF held = None THEN {} ELSE {held.items}),
     sort_by \in SortFields, reverse \in BOOLEAN :
    \E r \in {sort_tasks(tasks, heap, sort_by, reverse)} :
      Returned("sort_tasks", r)

\* The objects of the cache and of the list the caller holds.
Alive(h, d, l, hl) ==
  [q \in DOMAIN h \cap (CacheRefs(d, l) \cup (IF hl = None THEN {} ELSE Range(hl.items)))
     |-> h[q]]

\* get_all_tasks: the caller holds the list returned.
GetAllTasks ==
  /\ held' = ListCopy(get_all_tasks(_task_list))
  /\ call' = [op |-> "get_all_tasks", ret |-> "List", exc |-> "", cause |-> <<>>]
  /\ heap' = Alive(heap, _tasks, _task_list, held')
  /\ UNCHANGED <<store, _tasks, _task_list>>
  /\ OneThread

\* A method called while the caller holds a list: the objects of that list
\* stay, and the list is the one of the cache where it is the same object.
\* add_task appends to the list of the cache in place; delete_task binds
\* _task_list to a new list and leaves the old one as it was.
ApplyHeld(op, r) ==
  /\ store' = r.store
  /\ _tasks' = r._tasks
  /\ _task_list' = r._task_list
  /\ held' = IF held = None \/ ~held.alias THEN held
             ELSE IF op = "delete_task"
             THEN IF r.ret = "True" THEN [held EXCEPT !.alias = FALSE] ELSE held
             ELSE [held EXCEPT !.items = r._task_list]
  /\ heap' = Alive(r.heap @@ heap, r._tasks, r._task_list, held')
  /\ call' = Call(op, r)
  /\ OneThread

AddTaskHeld ==
  /\ Len(store) < MaxTasks
  /\ Len(_task_list) < MaxTasks
  /\ \E inp \in AddInputs, draw \in Draws, env \in StoreEnvs :
       \E r \in {add_task(store, _tasks, _task_list, heap, inp,
                           draw.task_id, draw.now, env)} :
         ApplyHeld("add_task", r)

DeleteTaskHeld ==
  \E task_id \in Queries, env \in StoreEnvs :
    \E r \in {delete_task(store, _tasks, _task_list, heap, task_id, env)} :
      ApplyHeld("delete_task", r)

\* The caller changes the list it holds; where that list is the list of the
\* cache, the cache has changed with it.
Mutate(op, items) ==
  /\ held' = [held EXCEPT !.items = items]
  /\ _task_list' = IF held.alias THEN items ELSE _task_list
  /\ heap' = Alive(heap, _tasks, _task_list', held')
  /\ call' = [op |-> op, ret |-> "", exc |-> "", cause |-> <<>>]
  /\ UNCHANGED <<store, _tasks>>
  /\ OneThread

\* list.append of a task of the cache, list.pop and list.reverse.
CallerAppend ==
  /\ held # None
  /\ Len(held.items) < MaxTasks
  /\ \E t \in Range(_task_list) : Mutate("list.append", Append(held.items, t))

CallerRemove ==
  /\ held # None
  /\ \E i \in DOMAIN held.items :
       Mutate("list.pop", SubSeq(held.items, 1, i - 1)
                            \o SubSeq(held.items, i + 1, Len(held.items)))

CallerReorder ==
  /\ held # None
  /\ Len(held.items) >= 2
  /\ Mutate("list.reverse", Reverse(held.items))

UpdateTask ==
  \E task_id \in Queries, inp \in UpdateInputs, env \in StoreEnvs :
    \E r \in {update_task(store, _tasks, _task_list, heap, task_id, inp, env)} :
      Apply("update_task", r)

MarkCompleted ==
  \E task_id \in Queries, env \in StoreEnvs :
    \E r \in {mark_completed(store, _tasks, _task_list, heap, task_id, env)} :
      Apply("mark_completed", r)

DeleteTask ==
  \E task_id \in Queries, env \in StoreEnvs :
    \E r \in {delete_task(store, _tasks, _task_list, heap, task_id, env)} :
      Apply("delete_task", r)

Next ==
  \/ LoadTasksFromDb
  \/ AddTask
  \/ UpdateTask
  \/ MarkCompleted
  \/ DeleteTask

Spec == Init /\ [][Next]_vars

\* The sequences of add_task, delete_task and load_tasks_from_db alone, over
\* three ids and up to three tasks.
NextIds ==
  \/ LoadTasksFromDb
  \/ AddTaskIds
  \/ DeleteTaskIds

SpecIds == Init /\ [][NextIds]_vars

\* The same sequences over a collection that other clients write to.
NextLoad ==
  \/ LoadTasksFromDb
  \/ AddTask
  \/ DeleteTask
  \/ OtherClient

SpecLoad == Init /\ [][NextLoad]_vars

\* A caller that keeps the list get_all_tasks returned, changes it, and
\* adds and deletes tasks.
NextSnapshot ==
  \/ GetAllTasks
  \/ AddTaskHeld
  \/ DeleteTaskHeld
  \/ CallerAppend
  \/ CallerRemove
  \/ CallerReorder

SpecSnapshot == Init /\ [][NextSnapshot]_vars

\* The queries over a loaded cache.
NextQuery ==
  \/ FilterTasks
  \/ SortTasks

SpecQuery == InitQuery /\ [][NextQuery]_vars

\* A tasks.sort() in place: the list passed is the sorted one afterwards.
Passed_SortInPlace(tasks, result) == result

\* sorted(tasks, ...) builds a new list: the list passed is as it was.
Passed(tasks, result) == tasks

\* get_task: a lookup in the dict, nothing assigned.
GetTask ==
  /\ \E task_id \in IdQueries :
       call' = [op |-> "get_task",
                ret |-> IF get_task(_tasks, task_id) = None THEN "None" ELSE "Task",
                exc |-> "", cause |-> <<>>]
  /\ UNCHANGED <<store, _tasks, _task_list, heap, held>>
  /\ OneThread

\* get_task_count: len of the list.
GetTaskCount ==
  /\ call' = [op |-> "get_task_count",
              ret |-> IF get_task_count(_task_list) = 0 THEN "0" ELSE "int",
              exc |-> "", cause |-> <<>>]
  /\ UNCHANGED <<store, _tasks, _task_list, heap, held>>
  /\ OneThread

\* sort_tasks of the list the caller holds; the caller keeps that list and
\* not the one returned.
SortPassed ==
  /\ held # None
  /\ \E sort_by \in SortFields, reverse \in BOOLEAN :
       \E r \in {sort_tasks(held.items, heap, sort_by, reverse)} :
         /\ call' = [op |-> "sort_tasks", ret |-> IF r.ok THEN "List" ELSE "",
                     exc |-> r.exc, cause |-> <<>>]
         /\ held' = IF r.ok THEN [held EXCEPT !.items = Passed(held.items, r.val)]
                    ELSE held
         /\ _task_list' = IF held.alias THEN held'.items ELSE _task_list
  /\ UNCHANGED <<store, _tasks, heap>>
  /\ OneThread

\* The methods that read the cache, over a loaded cache.
NextReads ==
  \/ GetTask
  \/ GetAllTasks
  \/ FilterTasks
  \/ SortPassed
  \/ GetTaskCount

SpecReads == InitQuery /\ [][NextReads]_vars

(***************************************************************************)
(* DatabaseHandler on its own (database_handler.py): connect, disconnect   *)
(* and insert_task in any order, the server going down and coming up       *)
(* between the calls.                                                      *)
(***************************************************************************)
Handler(client, database, collection) ==
  [_client |-> client, _database |-> database, _collection |-> collection]

\* The statement of connect that raises: none of them, the MongoClient
\* constructor, server_info or create_index.  server_info raises when the
\* server is down, and only then.
Raising(srv) ==
  IF srv = "down" THEN {"MongoClient", "server_info"}
  ELSE {"", "MongoClient", "create_index"}

\* connect: the attributes are assigned up to the statement that raises;
\* both except clauses return False.
connect(h, raising) ==
  IF raising = "MongoClient" THEN [handler |-> h, ret |-> "False"]
  ELSE IF raising = "server_info"
  THEN [handler |-> [h EXCEPT !._client = Some("MongoClient")], ret |-> "False"]
  ELSE [handler |-> Handler(Some("MongoClient"), Some("Database"), Some("Collection")),
        ret |-> IF raising = "create_index" THEN "False" ELSE "True"]

disconnect(h) ==
  IF h._client # None THEN Handler(None, None, None) ELSE h

\* What is_connected finds, as the handler's methods see it: "down" when
\* _client is None or server_info raises.
Probe(client, srv) == IF client = None \/ srv = "down" THEN "down" ELSE "ok"

\* What the statement after the probe meets: self._collection.insert_one on
\* None raises AttributeError, and the server may refuse the operation.
AfterProbe(collection) == IF collection = None THEN {"error"} ELSE {"ok", "error"}

\* The attributes of the handler after its method, with what it returned.
Handled(op, h, ret) ==
  /\ _client' = h._client
  /\ _database' = h._database
  /\ _collection' = h._collection
  /\ call' = [op |-> op, ret |-> ret, exc |-> "", cause |-> <<>>]
  /\ UNCHANGED <<store, server, _tasks, _task_list, heap, held,
                 _running, _background_stats, main, background>>

\* DatabaseHandler.__init__, the server up or down, the collection empty.
InitHandler ==
  /\ _client = None
  /\ _database = None
  /\ _collection = None
  /\ server \in {"up", "down"}
  /\ disconnected = FALSE
  /\ store = <<>>
  /\ _tasks = <<>>
  /\ _task_list = <<>>
  /\ heap = <<>>
  /\ call = [op |-> "__init__", ret |-> "", exc |-> "", cause |-> <<>>]
  /\ held = None
  /\ CLIInit

Connect ==
  \E raising \in Raising(server) :
    \E r \in {connect(Handler(_client, _database, _collection), raising)} :
      /\ Handled("connect", r.handler, r.ret)
      /\ disconnected' = (disconnected /\ r.ret # "True")

Disconnect ==
  /\ Handled("disconnect", disconnect(Handler(_client, _database, _collection)), "")
  /\ disconnected' = TRUE

\* insert_task of a task of one of two ids, into a collection of at most
\* MaxTasks documents.
InsertTask ==
  /\ Len(store) < MaxTasks
  /\ \E draw \in Draws :
       \E env \in IF Probe(_client, server) = "down" THEN {"down"}
                  ELSE AfterProbe(_collection) :
         \E r \in {insert_task(store,
                               TaskInit(draw.task_id, <<"x">>, <<>>, 1, "High",
                                        None, None, draw.now),
                               env)} :
           /\ store' = r.store
           /\ call' = [op |-> "insert_task", ret |-> "", exc |-> r.exc,
                       cause |-> IF env = "error" /\ _collection = None
                                 THEN <<r.cause, "AttributeError">>
                                 ELSE <<r.cause>>]
  /\ UNCHANGED <<_tasks, _task_list, heap, held, _running, _background_stats,
                 main, background, Db>>

ServerDown ==
  /\ server = "up"
  /\ server' = "down"
  /\ UNCHANGED <<store, _tasks, _task_list, heap, call, held, _running,
                 _background_stats, main, background, _client, _database,
                 _collection, disconnected>>

ServerUp ==
  /\ server = "down"
  /\ server' = "up"
  /\ UNCHANGED <<store, _tasks, _task_list, heap, call, held, _running,
                 _background_stats, main, background, _client, _database,
                 _collection, disconnected>>

NextHandler ==
  \/ Connect
  \/ Disconnect
  \/ InsertTask
  \/ ServerDown
  \/ ServerUp

SpecHandler == InitHandler /\ [][NextHandler]_vars

(***************************************************************************)
(* The two threads of TaskManagementCLI.run.  The main thread runs         *)
(* add_task, update_task, mark_completed and delete_task a statement that  *)
(* reads or writes the cache or the store at a time; the background thread *)
(* runs background_task_cleanup a statement at a time; the steps of the    *)
(* two interleave, with no lock.                                           *)
(***************************************************************************)
\* add_task's arguments and draws here: a task due at 1, and one whose
\* due_date is no datetime (-1 stands for such a value: add_task takes it as
\* it comes).
ThreadAdds ==
  { [inp |-> AddInput(<<"x">>, None, 1, <<"H","i","g","h">>, None),
     draw |-> [task_id |-> <<"a","b">>, now |-> 1]],
    [inp |-> AddInput(<<"x">>, None, -1, <<"H","i","g","h">>, None),
     draw |-> [task_id |-> <<"a","c">>, now |-> 1]] }

\* What the server does on a call of the main thread.
ThreadEnvs == {"ok", "error"}

\* update_task's: a priority and a status, and the status of mark_completed.
ThreadUpdateInputs ==
  { UpdateInput(None, None, None, Some(<<"L","o","w">>),
                Some(<<"I","n"," ","P","r","o","g","r","e","s","s">>)) }

\* The identifiers: the prefix the ids share, and a full id.
ThreadQueries == {<<"a">>, <<"a","c">>}

\* The objects of the cache and of the locals of the two threads.
ThreadAlive(h, d, l, m, b) ==
  [q \in DOMAIN h \cap (CacheRefs(d, l) \cup Range(b.tasks)
                          \cup (IF "ref" \in DOMAIN m THEN {m.ref} ELSE {}))
     |-> h[q]]

\* The main thread is at the menu and picks an operation.
Menu == main = AtMenu /\ _running

\* The method returns or raises, back to the menu.  What it returned is
\* not recorded here: call stays as __init__ left it.
Finish(op, ret, exc, cause) ==
  /\ main' = AtMenu
  /\ UNCHANGED call

\* add_task up to insert_task: the validators, Task() and the insert; a
\* raise ends the method.
AddInsert ==
  /\ Menu
  /\ Len(store) < MaxThreadTasks
  /\ \E add \in ThreadAdds, env \in ThreadEnvs :
       \E r \in {add_task(store, _tasks, _task_list, heap, add.inp,
                           add.draw.task_id, add.draw.now, env)} :
         IF r.ret = "Task"
         THEN /\ store' = r.store
              /\ heap' = (r.task[1] :> r.heap[r.task[1]]) @@ heap
              /\ main' = [pc |-> "add_map", ref |-> r.task[1],
                          task_id |-> add.draw.task_id]
              /\ UNCHANGED <<_tasks, _task_list, call>>
         ELSE /\ Finish("add_task", r.ret, r.exc, r.cause)
              /\ UNCHANGED <<store, _tasks, _task_list, heap>>
  /\ UNCHANGED <<held, Db, _running, _background_stats, background>>

\* self._tasks[task_id] = task
AddMap ==
  /\ main.pc = "add_map"
  /\ _tasks' = DictSet(_tasks, main.task_id, main.ref)
  /\ main' = [main EXCEPT !.pc = "add_list"]
  /\ UNCHANGED <<store, _task_list, heap, call, held, Db, _running, _background_stats,
                 background>>

\* self._task_list.append(task); return task
AddList ==
  /\ main.pc = "add_list"
  /\ _task_list' = Append(_task_list, main.ref)
  /\ Finish("add_task", "Task", "", <<>>)
  /\ UNCHANGED <<store, _tasks, heap, held, Db, _running, _background_stats, background>>

\* update_task and mark_completed up to the first assignment: get_task.
\* rest holds the fields given, in the order of their blocks.
Provided(inp) ==
  Filter(<<"title", "description", "due_date", "priority", "status">>,
         {f \in DOMAIN inp : inp[f] # None})

UpdateLookup(op, task_id, inp) ==
  /\ Menu
  /\ LET task == get_task(_tasks, task_id)
     IN  IF task = None
         THEN Finish(op, "False", "", <<>>)
         ELSE /\ main' = [pc |-> "update_fields", op |-> op, ref |-> task[1],
                          full_task_id |-> heap[task[1]].task_id, inp |-> inp,
                          rest |-> Provided(inp), update_data |-> <<>>]
              /\ UNCHANGED call
  /\ UNCHANGED <<store, _tasks, _task_list, heap, held, Db, _running, _background_stats,
                 background>>

UpdateTaskLookup ==
  \E task_id \in ThreadQueries, inp \in ThreadUpdateInputs :
    UpdateLookup("update_task", task_id, inp)

MarkCompletedLookup ==
  \E task_id \in ThreadQueries : UpdateLookup("mark_completed", task_id, MarkCompletedInput)

\* The time datetime.now() returns in the background thread.
ThreadTimes == {2}

\* The block of one field.
Block(field, st, inp) ==
  CASE field = "title" -> UpdTitle(st, inp)
    [] field = "description" -> UpdDescription(st, inp)
    [] field = "due_date" -> UpdDueDate(st, inp)
    [] field = "priority" -> UpdPriority(st, inp)
    [] field = "status" -> UpdStatus(st, inp)

\* The next "if x is not None:" block of a field that was given: the
\* assignment to the live task, or the raise of its validator.
UpdateAssign ==
  /\ main.pc = "update_fields"
  /\ main.rest # <<>>
  /\ LET st == Block(Head(main.rest),
                     UpdState(heap[main.ref], main.update_data, ""), main.inp)
     IN  IF st.exc # ""
         THEN /\ Finish(main.op, "", st.exc, <<"validation">>)
              /\ UNCHANGED heap
         ELSE /\ heap' = [heap EXCEPT ![main.ref] = st.task]
              /\ main' = [main EXCEPT !.rest = Tail(main.rest),
                                      !.update_data = st.update_data]
              /\ UNCHANGED call
  /\ UNCHANGED <<store, _tasks, _task_list, held, Db, _running, _background_stats,
                 background>>

\* if update_data: self._db_handler.update_task(...); return True
UpdateDb ==
  /\ main.pc = "update_fields"
  /\ main.rest = <<>>
  /\ \E env \in ThreadEnvs :
       \E r \in {update_task_db(store, main.full_task_id, main.update_data, env)} :
         IF DOMAIN main.update_data = {}
         THEN Finish(main.op, "True", "", <<>>) /\ UNCHANGED store
         ELSE IF r.exc # ""
         THEN /\ Finish(main.op, "", "Exception", <<"Database error", r.cause>>)
              /\ UNCHANGED store
         ELSE Finish(main.op, "True", "", <<>>) /\ store' = r.store
  /\ UNCHANGED <<_tasks, _task_list, heap, held, Db, _running, _background_stats, background>>

\* delete_task up to the delete in the store: get_task and
\* self._db_handler.delete_task(full_task_id).
DeleteDb ==
  /\ Menu
  /\ \E task_id \in ThreadQueries, env \in ThreadEnvs :
       LET task == get_task(_tasks, task_id)
       IN  IF task = None
           THEN Finish("delete_task", "False", "", <<>>) /\ UNCHANGED store
           ELSE \E r \in {delete_task_db(store, heap[task[1]].task_id, env)} :
                  IF r.exc # ""
                  THEN /\ Finish("delete_task", "", "Exception",
                                 <<"Database error", r.cause>>)
                       /\ UNCHANGED store
                  ELSE /\ store' = r.store
                       /\ main' = [pc |-> "delete_map",
                                   full_task_id |-> heap[task[1]].task_id]
                       /\ UNCHANGED call
  /\ UNCHANGED <<_tasks, _task_list, heap, held, Db, _running, _background_stats, background>>

\* del self._tasks[full_task_id]
DeleteMap ==
  /\ main.pc = "delete_map"
  /\ _tasks' = DictDel(_tasks, main.full_task_id)
  /\ main' = [main EXCEPT !.pc = "delete_list"]
  /\ UNCHANGED <<store, _task_list, heap, call, held, Db, _running, _background_stats,
                 background>>

\* A delete_task that returns with the list of the cache as it was.
DeleteList_Keep ==
  /\ main.pc = "delete_list"
  /\ Finish("delete_task", "True", "", <<>>)
  /\ UNCHANGED <<store, _tasks, _task_list, heap, held, Db, _running, _background_stats,
                 background>>

\* self._task_list = [t for t in self._task_list if ...]; return True
DeleteList ==
  /\ main.pc = "delete_list"
  /\ _task_list' = Filter(_task_list,
                          {x \in Range(_task_list) : heap[x].task_id # main.full_task_id})
  /\ Finish("delete_task", "True", "", <<>>)
  /\ heap' = ThreadAlive(heap, _tasks, _task_list', main', background)
  /\ UNCHANGED <<store, _tasks, held, Db, _running, _background_stats>>
  /\ UNCHANGED background

\* Choice 9 of the menu: self._running = False.
Exit ==
  /\ Menu
  /\ _running' = FALSE
  /\ UNCHANGED <<store, _tasks, _task_list, heap, call, held, Db, _background_stats,
                 main, background>>

\* What a step of the background thread leaves alone.
Reads == UNCHANGED <<store, _tasks, _task_list, call, held, Db, _running, main>>

\* An except that lets the exception end the thread.
except_raise(exc) == [pc |-> "done", tasks |-> <<>>, locals |-> <<>>, exc |-> exc]

\* except Exception: pass, and back to the head of the loop.
except_pass(exc) == [Waiting EXCEPT !.exc = exc]

\* A loop that does not look at self._running.
Wait_Forever ==
  /\ background.pc = "wait"
  /\ background' = [Waiting EXCEPT !.pc = "get_all"]
  /\ UNCHANGED <<heap, _background_stats>>
  /\ Reads

\* threading.Event().wait(10) returns; the two tests of self._running
\* around it.
Wait ==
  /\ background.pc = "wait"
  /\ background' = IF _running THEN [Waiting EXCEPT !.pc = "get_all"]
                   ELSE [Waiting EXCEPT !.pc = "done"]
  /\ UNCHANGED <<heap, _background_stats>>
  /\ Reads

\* A cycle without the "if tasks:" test: it counts an empty list too.
BackgroundGetAll_NoTest ==
  /\ background.pc = "get_all"
  /\ LET tasks == ListCopy(get_all_tasks(_task_list)).items
     IN  background' = [background EXCEPT !.pc = "completed", !.tasks = tasks,
                                          !.locals = [total_tasks |-> Len(tasks)]]
  /\ UNCHANGED <<heap, _background_stats>>
  /\ Reads

\* tasks = self._task_manager.get_all_tasks(); if tasks: total_tasks = len(tasks)
BackgroundGetAll ==
  /\ background.pc = "get_all"
  /\ LET tasks == ListCopy(get_all_tasks(_task_list)).items
     IN  background' = IF tasks = <<>> THEN Waiting
                       ELSE [background EXCEPT !.pc = "completed", !.tasks = tasks,
                                               !.locals = [total_tasks |-> Len(tasks)]]
  /\ UNCHANGED <<heap, _background_stats>>
  /\ Reads

\* A pass that cannot raise: its count goes to the local of its name.
Pass(pc, count, next) ==
  /\ background.pc = pc
  /\ background' = [background EXCEPT !.pc = next,
                                      !.locals = (pc :> count) @@ background.locals]
  /\ UNCHANGED <<heap, _background_stats>>
  /\ Reads

Completed == Pass("completed", completed(background.tasks, heap), "in_progress")
InProgress == Pass("in_progress", in_progress(background.tasks, heap), "pending")
Pending == Pass("pending", pending(background.tasks, heap), "overdue")

\* now = datetime.now() and the pass that compares with it.
Overdue ==
  /\ background.pc = "overdue"
  /\ \E now \in ThreadTimes :
       \E r \in {overdue(background.tasks, heap, now)} :
         /\ background' =
              IF r.ok
              THEN [background EXCEPT
                      !.pc = "high_priority",
                      !.locals = ("now" :> now) @@ ("overdue" :> r.val)
                                   @@ background.locals]
              ELSE except_pass(r.exc)
         /\ heap' = ThreadAlive(heap, _tasks, _task_list, main, background')
  /\ UNCHANGED _background_stats
  /\ Reads

HighPriority == Pass("high_priority", high_priority(background.tasks, heap), "publish")

\* A cycle that ends with a cleanup: it takes the Completed tasks out of the
\* cache as it publishes.
Publish_Cleanup ==
  /\ background.pc = "publish"
  /\ _background_stats' = Statistics(background.locals, background.locals.now)
  /\ background' = Waiting
  /\ _task_list' = Filter(_task_list,
                          {x \in Range(_task_list) : heap[x].status # "Completed"})
  /\ _tasks' = Filter(_tasks, {e \in Range(_tasks) : heap[e.val].status # "Completed"})
  /\ heap' = ThreadAlive(heap, _tasks', _task_list', main, background')
  /\ UNCHANGED <<store, call, held, Db, _running, main>>

\* self._background_stats = {...}: one assignment of the whole dict, with
\* the time of a second datetime.now().
Publish ==
  /\ background.pc = "publish"
  /\ \E timestamp \in {t \in ThreadTimes : t >= background.locals.now} :
       _background_stats' = Statistics(background.locals, timestamp)
  /\ background' = Waiting
  /\ heap' = ThreadAlive(heap, _tasks, _task_list, main, background')
  /\ Reads

MainThread ==
  \/ AddInsert
  \/ AddMap
  \/ AddList
  \/ UpdateTaskLookup
  \/ MarkCompletedLookup
  \/ UpdateAssign
  \/ UpdateDb
  \/ DeleteDb
  \/ DeleteMap
  \/ DeleteList
  \/ Exit

BackgroundThread ==
  \/ Wait
  \/ BackgroundGetAll
  \/ Completed
  \/ InProgress
  \/ Pending
  \/ Overdue
  \/ HighPriority
  \/ Publish

NextThreads == MainThread \/ BackgroundThread

SpecThreads == Init /\ [][NextThreads]_vars

\* The scheduler runs the background thread again and again, and each wait
\* of ten seconds ends.
FairSpecThreads == SpecThreads /\ WF_vars(BackgroundThread)

(***************************************************************************)
(* Task on its own: a Task is made from arguments of every sort, turned    *)
(* into its dict and made again from the dict.                             *)
(***************************************************************************)
\* The arguments of Task(): titles empty, plain and with a blank; a due_date
\* that is a datetime and one that is none (-1); priorities in and out of
\* the enum; status left out, in and out of the enum; created_at left out
\* and given.
TaskArgs ==
  [title : {<<>>, <<"x">>, <<" ","x">>},
   description : {<<>>, <<"d">>},
   due_date : {1, -1},
   priority : {"High", "Low", "Urgent"},
   status : {None, Some("Pending"), Some("Completed"), Some("Done")},
   created_at : {None, Some(1)}]

\* Task(task_id, title, ...): the object is the first of the heap.
NewTask ==
  /\ heap = <<>>
  /\ \E args \in TaskArgs, now \in Times :
       heap' = <<TaskInit(<<"a","b">>, args.title, args.description, args.due_date,
                          args.priority, args.status, args.created_at, now)>>
  /\ call' = [op |-> "Task", ret |-> "Task", exc |-> "", cause |-> <<>>]
  /\ UNCHANGED <<store, _tasks, _task_list, held>>
  /\ OneThread

\* task.to_dict(): the dict is kept where the documents are.
ToDict ==
  /\ DOMAIN heap = {1}
  /\ store = <<>>
  /\ store' = <<to_dict(heap[1])>>
  /\ call' = [op |-> "to_dict", ret |-> "dict", exc |-> "", cause |-> <<>>]
  /\ UNCHANGED <<_tasks, _task_list, heap, held>>
  /\ OneThread

\* Task.from_dict(data): the object is the second of the heap.
FromDict ==
  /\ DOMAIN heap = {1}
  /\ store # <<>>
  /\ \E now \in Times : heap' = Append(heap, from_dict(store[1], now))
  /\ call' = [op |-> "from_dict", ret |-> "Task", exc |-> "", cause |-> <<>>]
  /\ UNCHANGED <<store, _tasks, _task_list, held>>
  /\ OneThread

NextTask ==
  \/ NewTask
  \/ ToDict
  \/ FromDict

SpecTask == Init /\ [][NextTask]_vars

(***************************************************************************)
(* What the properties below speak of.                                     *)
(***************************************************************************)
\* The ids in the dict, in the list and in the collection.
CachedIds(d) == {d[i].key : i \in DOMAIN d}
ListIds(l, h) == {h[l[i]].task_id : i \in DOMAIN l}
StoredIds(coll) == {coll[i].task_id : i \in DOMAIN coll}

\* The document of the collection with this id.
StoredDoc(coll, task_id) == coll[CHOOSE i \in DOMAIN coll : coll[i].task_id = task_id]

\* The cache and the store hold the same tasks: the same ids, and under each
\* id equal fields.
SameTasks(coll, d, l, h) ==
  /\ CachedIds(d) = StoredIds(coll)
  /\ ListIds(l, h) = StoredIds(coll)
  /\ \A i \in DOMAIN d : \A f \in TaskFields :
       h[d[i].val][f] = StoredDoc(coll, d[i].key)[f]
  /\ \A i \in DOMAIN l : \A f \in TaskFields :
       h[l[i]][f] = StoredDoc(coll, h[l[i]].task_id)[f]

\* The cache of an outcome is the cache it started from: the same ids in the
\* same order, and the same values in the fields of every cached task.
SameCache(r, d, l, h) ==
  /\ [i \in DOMAIN r._tasks |-> r._tasks[i].key] = [i \in DOMAIN d |-> d[i].key]
  /\ [i \in DOMAIN r._task_list |-> r.heap[r._task_list[i]]] = [i \in DOMAIN l |-> h[l[i]]]
  /\ [i \in DOMAIN r._tasks |-> r.heap[r._tasks[i].val]] = [i \in DOMAIN d |-> h[d[i].val]]

\* The last call succeeded: it raised nothing and did not return False.
Succeeded == call.exc = "" /\ call.ret \in {"True", "Task"}

\* The method raised the exception the source wraps a store-side error in.
StoreError(r) == r.exc = "Exception" /\ r.cause # <<>> /\ r.cause[1] = "Database error"

\* The text of each enum value, and whether a text names a value of an enum
\* (surrounding blanks and case aside).
EnumText ==
  ("Low" :> <<"L","o","w">>) @@ ("Medium" :> <<"M","e","d","i","u","m">>)
    @@ ("High" :> <<"H","i","g","h">>) @@ ("Pending" :> PendingText)
    @@ ("In Progress" :> <<"I","n"," ","P","r","o","g","r","e","s","s">>)
    @@ ("Completed" :> CompletedText)
NamesOneOf(text, enum) ==
  \E i \in DOMAIN enum : Lower(Strip(text)) = Lower(EnumText[enum[i]])
BlankText(text) == \A i \in DOMAIN text : text[i] = " "

\* add_task's arguments are invalid: a blank title, a priority or a status
\* outside its enum.
InvalidAddInput(inp) ==
  \/ BlankText(inp.title)
  \/ ~NamesOneOf(inp.priority, VALID_PRIORITIES)
  \/ inp.status # None /\ ~NamesOneOf(inp.status[1], VALID_STATUSES)

\* One of the fields update_task is given is invalid.
InvalidUpdateInput(inp) ==
  \/ inp.title # None /\ BlankText(inp.title[1])
  \/ inp.priority # None /\ ~NamesOneOf(inp.priority[1], VALID_PRIORITIES)
  \/ inp.status # None /\ ~NamesOneOf(inp.status[1], VALID_STATUSES)

(***************************************************************************)
(* C1.  After every call that succeeds, the cache and the store hold the   *)
(* same tasks: the same ids and, under each id, equal title, description,  *)
(* due_date, priority, status and created_at.                              *)
(* Violated: update_task assigns to the cached task before it validates    *)
(* the next field and before it writes to the store, so a call that raises *)
(* leaves the cached task changed, and the next call that succeeds finds   *)
(* the cache and the store apart.                                          *)
(***************************************************************************)
C1_CacheEqualsStoreAfterSuccess ==
  Succeeded => SameTasks(store, _tasks, _task_list, heap)

(***************************************************************************)
(* C2.  When add_task, update_task or delete_task reaches the store and    *)
(* the store operation fails, the method raises the store error and the    *)
(* cache is as it was before the call: the same ids in the same order and  *)
(* the same field values of every cached task.                             *)
(* Violated by update_task: the fields are assigned to the cached task     *)
(* before db_handler.update_task is called.                                *)
(***************************************************************************)
C2_StoreFailureLeavesCache ==
  \A env \in StoreEnvs \ {"ok"} :
    /\ \A inp \in AddInputs, draw \in Draws :
         LET r == add_task(store, _tasks, _task_list, heap, inp,
                           draw.task_id, draw.now, env)
         IN  ~InvalidAddInput(inp)
             => StoreError(r) /\ SameCache(r, _tasks, _task_list, heap)
    /\ \A task_id \in Queries, inp \in UpdateInputs :
         LET r == update_task(store, _tasks, _task_list, heap, task_id, inp, env)
         IN  StoreError(r) => SameCache(r, _tasks, _task_list, heap)
    /\ \A task_id \in Queries :
         LET r == delete_task(store, _tasks, _task_list, heap, task_id, env)
         IN  StoreError(r) => SameCache(r, _tasks, _task_list, heap)

(***************************************************************************)
(* C3.  Write-through ordering.  add_task puts the task into the cache     *)
(* only when the store insert has succeeded, delete_task takes it out of   *)
(* the cache only when the store delete has succeeded; get_all_tasks never *)
(* holds a task that is not in the collection (whose documents all come    *)
(* from an insert that succeeded); and when the store delete fails the     *)
(* task is still what get_task returns and get_task_count still counts it. *)
(***************************************************************************)
C3_WriteThroughOrdering ==
  /\ ListIds(get_all_tasks(_task_list), heap) \subseteq StoredIds(store)
  /\ \A inp \in AddInputs, draw \in Draws, env \in StoreEnvs :
       LET r == add_task(store, _tasks, _task_list, heap, inp,
                         draw.task_id, draw.now, env)
       IN  ~SameCache(r, _tasks, _task_list, heap)
           => /\ r.exc = ""
              /\ draw.task_id \in StoredIds(r.store) \ StoredIds(store)
              /\ env = "ok"
  /\ \A task_id \in Queries, env \in StoreEnvs :
       LET r == delete_task(store, _tasks, _task_list, heap, task_id, env)
           task == get_task(_tasks, task_id)
       IN  /\ ~SameCache(r, _tasks, _task_list, heap)
              => /\ r.exc = ""
                 /\ heap[task[1]].task_id \in StoredIds(store) \ StoredIds(r.store)
                 /\ env = "ok"
           /\ r.exc # ""
              => /\ task # None
                 /\ get_task(r._tasks, task_id) = task
                 /\ r.heap[task[1]] = heap[task[1]]
                 /\ get_task_count(r._task_list) = get_task_count(_task_list)

\* A store delete has failed and the task is still cached and counted.
C3_Witness ==
  /\ call.op = "delete_task"
  /\ StoreError(call)
  /\ get_task_count(_task_list) = 2
  /\ \E task_id \in Queries : get_task(_tasks, task_id) # None

(***************************************************************************)
(* C4.  update_task on a task get_task finds, with a title, priority or    *)
(* status that is invalid: the ValueError reaches the caller and nothing   *)
(* is written to the store, every document is as it was.                   *)
(***************************************************************************)
C4_InvalidUpdateWritesNothing ==
  \A task_id \in Queries, inp \in UpdateInputs, env \in StoreEnvs :
    LET r == update_task(store, _tasks, _task_list, heap, task_id, inp, env)
    IN  get_task(_tasks, task_id) # None /\ InvalidUpdateInput(inp)
        => r.exc = "ValueError" /\ r.ret = "" /\ r.store = store

\* An update_task has raised ValueError on a stored task.
C4_Witness ==
  /\ call.op = "update_task"
  /\ call.exc = "ValueError"
  /\ store # <<>>
  /\ _tasks # <<>>

(***************************************************************************)
(* C5.  add_task with a blank title, a priority outside Low/Medium/High or *)
(* a status outside the statuses raises ValueError before it gets to the   *)
(* store, whatever the store would have done: no document is added and the *)
(* cache is as it was.                                                     *)
(***************************************************************************)
C5_InvalidCreateBeforeStore ==
  \A inp \in AddInputs, draw \in Draws, env \in StoreEnvs :
    LET r == add_task(store, _tasks, _task_list, heap, inp,
                      draw.task_id, draw.now, env)
    IN  InvalidAddInput(inp)
        => /\ r.exc = "ValueError"
           /\ r.cause = <<"validation">>
           /\ r.store = store
           /\ SameCache(r, _tasks, _task_list, heap)

\* An add_task has raised on its arguments, over a cache that holds a task.
C5_Witness ==
  /\ call.op = "add_task"
  /\ call.exc = "ValueError"
  /\ call.cause = <<"validation">>
  /\ _task_list # <<>>

(***************************************************************************)
(* C6.  Whatever the cache holds, when add_task succeeds, get_task of the  *)
(* full id of the task it returned gives a task equal to it in all seven   *)
(* fields.                                                                 *)
(***************************************************************************)
C6_GetAfterCreate ==
  \A inp \in AddInputs, draw \in Draws, env \in StoreEnvs :
    LET r == add_task(store, _tasks, _task_list, heap, inp,
                      draw.task_id, draw.now, env)
    IN  r.ret = "Task"
        => LET created == r.heap[r.task[1]]
               got == get_task(r._tasks, created.task_id)
           IN  /\ got # None
               /\ \A f \in TaskFields : r.heap[got[1]][f] = created[f]

\* An add_task has succeeded over a cache that held a task already, and
\* get_task finds the new task under its id.
C6_Witness ==
  /\ call.op = "add_task"
  /\ call.ret = "Task"
  /\ Len(_task_list) = 2
  /\ get_task(_tasks, heap[_task_list[2]].task_id) = Some(_task_list[2])

(***************************************************************************)
(* C7.  When delete_task of the full id of a cached task succeeds,         *)
(* get_task of that id finds nothing, get_task_count is one less than it   *)
(* was, and get_all_tasks holds every other task, in the order they were   *)
(* in.                                                                     *)
(***************************************************************************)
C7_DeleteRemovesOne ==
  \A task_id \in CachedIds(_tasks), env \in StoreEnvs :
    LET r == delete_task(store, _tasks, _task_list, heap, task_id, env)
        before == [i \in DOMAIN _task_list |-> heap[get_all_tasks(_task_list)[i]]]
        after == [i \in DOMAIN r._task_list |-> r.heap[get_all_tasks(r._task_list)[i]]]
    IN  r.ret = "True"
        => /\ get_task(r._tasks, task_id) = None
           /\ get_task_count(r._task_list) = get_task_count(_task_list) - 1
           /\ after = Filter(before, {t \in Range(before) : t.task_id # task_id})

\* A delete_task of the second of three tasks has succeeded: the first and
\* the third are left, in that order.
C7_Witness ==
  /\ call.op = "delete_task"
  /\ call.ret = "True"
  /\ get_task_count(_task_list) = 2
  /\ heap[_task_list[1]].task_id = <<"a","c">>
  /\ heap[_task_list[2]].task_id = <<"a","b">>
  /\ StoredIds(store) = {<<"a","b">>, <<"a","c">>}

\* The first position of l whose task satisfies the test, 0 for none.
FirstIn(l, h, Test(_)) ==
  IF \E i \in DOMAIN l : Test(h[l[i]].task_id)
  THEN CHOOSE i \in DOMAIN l :
         Test(h[l[i]].task_id) /\ \A j \in 1..(i - 1) : ~Test(h[l[j]].task_id)
  ELSE 0

Resolved(l, h, x) ==
  LET Exact(id) == id = x
      Prefix(id) == StartsWith(Lower(id), Lower(x))
      e == FirstIn(l, h, Exact)
      p == FirstIn(l, h, Prefix)
  IN  IF e # 0 THEN Some(h[l[e]]) ELSE IF p # 0 THEN Some(h[l[p]]) ELSE None

(***************************************************************************)
(* C8.  get_task(x) is the task whose id is x when there is one; failing   *)
(* that, the first task in the order of get_all_tasks whose id starts with *)
(* x, case aside; and nothing when no cached id starts with x.             *)
(***************************************************************************)
C8_GetResolution ==
  \A x \in IdQueries \cup CachedIds(_tasks) :
    LET got == get_task(_tasks, x)
    IN  (IF got = None THEN None ELSE Some(heap[got[1]]))
          = Resolved(get_all_tasks(_task_list), heap, x)

\* Three tasks are cached, after a delete_task: the prefix two of them share
\* resolves to the earlier of the two, which is not the first task; the
\* prefix of one id alone, in upper case, to that task; a full id to its task.
C8_Witness ==
  /\ Len(_task_list) = 3
  /\ call.op = "add_task"
  /\ heap[_task_list[1]].task_id = <<"b","c">>
  /\ heap[_task_list[2]].task_id = <<"a","c">>
  /\ get_task(_tasks, <<"a">>) = Some(_task_list[2])
  /\ get_task(_tasks, <<"B">>) = Some(_task_list[1])
  /\ get_task(_tasks, <<"a","b">>) = Some(_task_list[3])
  /\ get_task(_tasks, <<"c">>) = None

\* update_task is given a status and nothing else.
StatusOnly(inp) ==
  /\ inp.status # None
  /\ inp.title = None /\ inp.description = None
  /\ inp.due_date = None /\ inp.priority = None

(***************************************************************************)
(* C9.  An update_task that is given a status and nothing else, and        *)
(* succeeds, leaves the title, description, due_date, priority and         *)
(* created_at of the task as they were, in the cache and in the store.     *)
(***************************************************************************)
C9_StatusOnlyFrame ==
  \A task_id \in Queries, inp \in UpdateInputs \cup {MarkCompletedInput},
     env \in StoreEnvs :
    LET r == update_task(store, _tasks, _task_list, heap, task_id, inp, env)
        task == get_task(_tasks, task_id)
    IN  StatusOnly(inp) /\ r.ret = "True"
        => /\ task # None
           /\ get_task(r._tasks, task_id) = task
           /\ \A f \in TaskFields \ {"status"} :
                /\ r.heap[task[1]][f] = heap[task[1]][f]
                /\ StoredDoc(r.store, heap[task[1]].task_id)[f]
                     = StoredDoc(store, heap[task[1]].task_id)[f]

\* A status has been written to a task that was changed before: the task
\* is Completed in the cache and in the store, with the title, description
\* and priority of the earlier update.
C9_Witness ==
  /\ call.op \in {"update_task", "mark_completed"}
  /\ call.ret = "True"
  /\ \E i \in DOMAIN _task_list :
       LET t == heap[_task_list[i]]
       IN  /\ t.status = "Completed" /\ t.title = <<"z">> /\ t.priority = "Medium"
           /\ t.description = <<"e">> /\ t.due_date = 2
           /\ StoredDoc(store, t.task_id) = t

\* r is what a method left behind on identifier task_id under env; writes
\* tells whether the call has something to write to the store.
FalseIffNotFound(r, task_id, env, writes) ==
  /\ r.ret = "False" <=> get_task(_tasks, task_id) = None
  /\ r.ret = "False"
     => r.store = store /\ r.exc = "" /\ SameCache(r, _tasks, _task_list, heap)
  /\ get_task(_tasks, task_id) # None /\ writes /\ env # "ok"
     => r.ret = "" /\ StoreError(r)

(***************************************************************************)
(* C10.  update_task, mark_completed and delete_task return False exactly  *)
(* when get_task finds no task for the identifier, and then the cache and  *)
(* the store are as they were; when the store fails the method raises, it  *)
(* does not return False.                                                  *)
(***************************************************************************)
C10_FalseOnlyWhenNotFound ==
  \A task_id \in Queries, env \in StoreEnvs :
    /\ \A inp \in UpdateInputs :
         FalseIffNotFound(
           update_task(store, _tasks, _task_list, heap, task_id, inp, env),
           task_id, env,
           ~InvalidUpdateInput(inp) /\ inp # UpdateInput(None, None, None, None, None))
    /\ FalseIffNotFound(mark_completed(store, _tasks, _task_list, heap, task_id, env),
                        task_id, env, TRUE)
    /\ FalseIffNotFound(delete_task(store, _tasks, _task_list, heap, task_id, env),
                        task_id, env, TRUE)

\* A delete_task has returned False over a cache that holds tasks.
C10_Witness ==
  /\ call.op = "delete_task"
  /\ call.ret = "False"
  /\ call.exc = ""
  /\ _task_list # <<>>
  /\ store # <<>>

(***************************************************************************)
(* C11.  When load_tasks_from_db succeeds, the cache holds the tasks of    *)
(* the scan of the store and no other, in the order of the scan, whatever  *)
(* it held before, and get_task_count is the number of documents scanned.  *)
(***************************************************************************)
C11_LoadAllMirrorsStore ==
  \A env \in StoreEnvs, now \in Times :
    LET r == load_tasks_from_db(store, _tasks, _task_list, heap, env, now)
        scan == get_all_tasks_db(store, env, now).ret
    IN  r.ret = "True"
        => /\ r.store = store
           /\ get_task_count(r._task_list) = Len(store)
           /\ [i \in DOMAIN r._task_list |-> r.heap[get_all_tasks(r._task_list)[i]]] = scan
           /\ [i \in DOMAIN r._tasks |-> r.heap[r._tasks[i].val]] = scan
           /\ [i \in DOMAIN r._tasks |-> r._tasks[i].key]
                = [i \in DOMAIN store |-> store[i].task_id]
           /\ \A i \in DOMAIN store : \A f \in TaskFields : scan[i][f] = store[i][f]

\* A load has succeeded over a collection that another client wrote to: the
\* cache holds a task that no add_task of this TaskManager made, and it
\* holds the store's tasks in the store's order.
C11_Witness ==
  /\ call.op = "load_tasks_from_db"
  /\ call.ret = "True"
  /\ Len(store) = 2
  /\ [i \in DOMAIN _task_list |-> heap[_task_list[i]]] = store
  /\ \E i \in DOMAIN _task_list : heap[_task_list[i]].title = <<"y">>
  /\ \E i \in DOMAIN _task_list : heap[_task_list[i]].title = <<"x">>

(***************************************************************************)
(* C12.  load_tasks_from_db clears the cache before it reads the store:    *)
(* when the read fails it raises to its caller and the cache is empty      *)
(* afterwards, whatever it held before.                                    *)
(* Violated: the store is read first and the cache is cleared only when    *)
(* the read has succeeded; a failed read is caught, the method returns     *)
(* False and the cache is as it was.                                       *)
(***************************************************************************)
C12_LoadFailureRaisesAndClears ==
  \A env \in StoreEnvs \ {"ok"}, now \in Times :
    LET r == load_tasks_from_db(store, _tasks, _task_list, heap, env, now)
    IN  /\ r.exc # ""
        /\ r._tasks = <<>>
        /\ r._task_list = <<>>

\* A task satisfies the criteria that are given: its priority and its status
\* are the ones named, it is due on the day given, before and after the
\* times given.
SameDay(a, b) == a \div 2 = b \div 2
Satisfies(task, crit) ==
  /\ crit.priority # None
     => Lower(EnumText[task.priority]) = Lower(Strip(crit.priority[1]))
  /\ crit.status # None
     => Lower(EnumText[task.status]) = Lower(Strip(crit.status[1]))
  /\ crit.due_date # None => SameDay(task.due_date, crit.due_date[1])
  /\ crit.due_date_before # None => task.due_date < crit.due_date_before[1]
  /\ crit.due_date_after # None => task.due_date > crit.due_date_after[1]

\* The criteria name values of the enums.
ValidCriteria(crit) ==
  /\ crit.priority # None => NamesOneOf(crit.priority[1], VALID_PRIORITIES)
  /\ crit.status # None => NamesOneOf(crit.status[1], VALID_STATUSES)

\* The k-th of a set of positions.
KthOf(positions, k) ==
  CHOOSE i \in positions : Cardinality({j \in positions : j < i}) = k - 1

(***************************************************************************)
(* C13.  filter_tasks returns the cached tasks that satisfy all the        *)
(* criteria given, and no other, in the order of the cache: priority and   *)
(* status by equality, due_date by the day, due_date_before and            *)
(* due_date_after by strict comparison of the date-time; a criterion that  *)
(* is not given excludes nothing, and with no criterion the result is the  *)
(* sequence get_all_tasks returns.                                         *)
(***************************************************************************)
C13_FilterConjunction ==
  \A crit \in FilterInputs :
    ValidCriteria(crit)
    => LET r == filter_tasks(_task_list, heap, crit)
           all == get_all_tasks(_task_list)
           kept == {i \in DOMAIN all : Satisfies(heap[all[i]], crit)}
       IN  /\ r.ok
           /\ Len(r.val) = Cardinality(kept)
           /\ \A k \in DOMAIN r.val : r.val[k] = all[KthOf(kept, k)]
           /\ crit = FilterInput(None, None, None, None, None) => r.val = all

\* filter_tasks has returned two of four cached tasks, the second and the
\* fourth, in that order.
C13_Witness ==
  /\ call.op = "filter_tasks"
  /\ call.ret = "List"
  /\ Len(_task_list) = 4
  /\ held # None
  /\ held.items = <<_task_list[2], _task_list[4]>>

\* The lists a caller can hand to sort_tasks: the list of all tasks and the
\* list it holds.
SortInputs ==
  {get_all_tasks(_task_list)} \cup (IF held = None THEN {} ELSE {held.items})

\* The ranks of the priorities of a list of tasks.
Ranks(tasks) == [i \in DOMAIN tasks |-> priority_order[heap[tasks[i]].priority]]
NonDecreasing(ranks) == \A i, j \in DOMAIN ranks : i < j => ranks[i] <= ranks[j]
NonIncreasing(ranks) == \A i, j \in DOMAIN ranks : i < j => ranks[i] >= ranks[j]

(***************************************************************************)
(* C14, as the claim states it.  sort_tasks by priority in the default     *)
(* direction puts every High task before every Medium task before every    *)
(* Low task, and with reverse the order is the other way round.            *)
(***************************************************************************)
C14_HighFirstByDefault ==
  \A tasks \in SortInputs :
    /\ NonIncreasing(Ranks(sort_tasks(tasks, heap, "priority", FALSE).val))
    /\ NonDecreasing(Ranks(sort_tasks(tasks, heap, "priority", TRUE).val))

(***************************************************************************)
(* C14, amended.  sort_tasks by priority in the default direction puts     *)
(* every Low task before every Medium task before every High task; with    *)
(* reverse it puts every High before every Medium before every Low.  The   *)
(* result holds the tasks of the list given, each as often as the list.    *)
(***************************************************************************)
C14_LowFirstByDefault ==
  \A tasks \in SortInputs, reverse \in BOOLEAN :
    LET r == sort_tasks(tasks, heap, "priority", reverse)
    IN  /\ r.ok
        /\ Len(r.val) = Len(tasks)
        /\ \A t \in Range(tasks) :
             Cardinality({i \in DOMAIN r.val : r.val[i] = t})
               = Cardinality({i \in DOMAIN tasks : tasks[i] = t})
        /\ IF reverse THEN NonIncreasing(Ranks(r.val))
           ELSE NonDecreasing(Ranks(r.val))

\* sort_tasks has returned four cached tasks of the three priorities, the
\* Low one first and the two High ones last.
C14_Witness ==
  /\ call.op = "sort_tasks"
  /\ call.ret = "List"
  /\ Len(_task_list) = 4
  /\ held # None
  /\ Range(held.items) = Range(_task_list)
  /\ [i \in 1..4 |-> heap[held.items[i]].priority] = <<"Low", "Medium", "High", "High">>

\* The place of a task in a list that holds it once.
IndexOf(tasks, t) == CHOOSE i \in DOMAIN tasks : tasks[i] = t

(***************************************************************************)
(* C15.  sort_tasks is stable for every sort field and in both             *)
(* directions: two tasks of the list given whose sort keys are equal are   *)
(* in the result in the order they had in the list.                        *)
(***************************************************************************)
C15_SortStable ==
  \A tasks \in SortInputs, reverse \in BOOLEAN :
    \A sort_by \in Range(valid_sort_fields) :
      LET r == sort_tasks(tasks, heap, sort_by, reverse)
      IN  /\ r.ok
          /\ \A i, j \in DOMAIN tasks :
               /\ i < j
               /\ get_sort_key(heap[tasks[i]], sort_by) = get_sort_key(heap[tasks[j]], sort_by)
               => IndexOf(r.val, tasks[i]) < IndexOf(r.val, tasks[j])

\* sort_tasks has put the two High tasks of the cache, its first and its
\* third, first in the result and in that order, before the Medium and the
\* Low one.
C15_Witness ==
  /\ call.op = "sort_tasks"
  /\ call.ret = "List"
  /\ Len(_task_list) = 4
  /\ [i \in 1..4 |-> heap[_task_list[i]].priority] = <<"High", "Low", "High", "Medium">>
  /\ held # None
  /\ held.items = <<_task_list[1], _task_list[3], _task_list[4], _task_list[2]>>

CallerOps == {"list.append", "list.pop", "list.reverse"}

(***************************************************************************)
(* C16.  get_all_tasks returns a copy of the list of the cache.  When the  *)
(* caller appends to, removes from or reorders the list returned, what     *)
(* get_all_tasks, get_task_count and get_task return afterwards is what    *)
(* they returned before; and an add_task or delete_task after it changes   *)
(* neither the members nor the order of the list returned.                 *)
(***************************************************************************)
C16_SnapshotCopy ==
  [][ /\ call'.op \in CallerOps
         => /\ get_all_tasks(_task_list') = get_all_tasks(_task_list)
            /\ get_task_count(_task_list') = get_task_count(_task_list)
            /\ \A task_id \in Queries : get_task(_tasks', task_id) = get_task(_tasks, task_id)
      /\ (call'.op \in {"add_task", "delete_task"} /\ held # None)
         => held'.items = held.items ]_vars

\* The caller has reversed the list of two tasks get_all_tasks returned,
\* and the cache holds the two in the order they were added.
C16_Witness ==
  /\ call.op = "list.reverse"
  /\ held # None
  /\ Len(_task_list) = 2
  /\ _task_list[1] # _task_list[2]
  /\ held.items = <<_task_list[2], _task_list[1]>>
  /\ heap[_task_list[1]].created_at <= heap[_task_list[2]].created_at

\* What a method leaves of the cache and the store.
Left(r) == <<r.store, r._tasks, r._task_list, r.heap>>

(***************************************************************************)
(* C17.  mark_completed(task_id) is update_task(task_id,                   *)
(* status="Completed"): from one state of the cache and the store the two  *)
(* return or raise the same and leave the same cache and store.  When      *)
(* mark_completed returns True the task it found has the status Completed  *)
(* in the cache and in the store, and a second mark_completed of the same  *)
(* identifier leaves the cache and the store as the first left them.       *)
(***************************************************************************)
C17_MarkCompletedIsUpdate ==
  \A task_id \in Queries, env \in StoreEnvs :
    LET r == mark_completed(store, _tasks, _task_list, heap, task_id, env)
        u == update_task(store, _tasks, _task_list, heap, task_id,
                         UpdateInput(None, None, None, None, Some(CompletedText)), env)
    IN  /\ r = u
        /\ r.ret = "True"
           => /\ r.full_task_id # None
              /\ r.heap[DictGet(r._tasks, r.full_task_id[1])].status = "Completed"
              /\ DocsWithId(r.store, r.full_task_id[1]) # {}
              /\ \A i \in DocsWithId(r.store, r.full_task_id[1]) :
                   r.store[i].status = "Completed"
              /\ \A env2 \in StoreEnvs :
                   Left(mark_completed(r.store, r._tasks, r._task_list, r.heap,
                                       task_id, env2)) = Left(r)

\* mark_completed has returned True and the cache holds a task that is
\* Completed in the cache and in the store.
C17_Witness ==
  /\ call.op = "mark_completed"
  /\ call.ret = "True"
  /\ \E i \in DOMAIN _tasks :
       /\ heap[_tasks[i].val].status = "Completed"
       /\ \E j \in DocsWithId(store, _tasks[i].key) : store[j].status = "Completed"

(***************************************************************************)
(* C18.  The background thread reads the TaskManager and writes nothing of *)
(* it: a step of background_task_cleanup leaves the id map, the list, the  *)
(* fields of every cached task and the collection as they are, and the     *)
(* main thread and _running too; what it writes is _background_stats (and  *)
(* its own locals).                                                        *)
(***************************************************************************)
C18_BackgroundReadOnly ==
  [][ background' # background
      => /\ store' = store
         /\ _tasks' = _tasks
         /\ _task_list' = _task_list
         /\ \A ref \in CacheRefs(_tasks, _task_list) :
              ref \in DOMAIN heap => (ref \in DOMAIN heap' /\ heap'[ref] = heap[ref])
         /\ _running' = _running
         /\ main' = main ]_vars

\* The background thread has published the statistics of a cache of one
\* Completed task, and the task is in the cache and in the collection.
C18_Witness ==
  /\ _background_stats # None
  /\ _background_stats.total = 1
  /\ _background_stats.completed = 1
  /\ background.pc = "wait"
  /\ Len(_task_list) = 1
  /\ heap[_task_list[1]].status = "Completed"
  /\ Len(store) = 1

\* The cache as it is between two operations of the main thread: the ids of
\* the list are the keys of the map and the ids of the collection, and no
\* task has the priority of an update_task without its status.
Whole ==
  /\ ListIds(_task_list, heap) = CachedIds(_tasks)
  /\ CachedIds(_tasks) = StoredIds(store)
  /\ Len(_task_list) = Cardinality(CachedIds(_tasks))
  /\ \A ref \in CacheRefs(_tasks, _task_list) :
       ~(heap[ref].priority = "Low" /\ heap[ref].status = "Pending")

(***************************************************************************)
(* C19.  No lock keeps the background thread from reading while the main   *)
(* thread is inside add_task, update_task or delete_task: its              *)
(* get_all_tasks is never held up, and its passes read the live tasks.     *)
(* What it can see then is a cache that is at no time there between two    *)
(* operations of the main thread: between two operations the list, the     *)
(* map and the collection hold the same ids and each task has all the      *)
(* fields of an update or none.                                            *)
(***************************************************************************)
C19_TornSnapshot ==
  /\ main = AtMenu => Whole
  /\ background.pc = "get_all" => ENABLED BackgroundGetAll
  /\ background.pc = "high_priority" => ENABLED HighPriority

\* get_all_tasks has returned to the background thread a list with a task
\* whose id the delete_task in progress has taken out of the map and the
\* collection, and not yet out of the list.
C19_Witness ==
  /\ main.pc = "delete_list"
  /\ background.pc = "completed"
  /\ background.tasks = _task_list
  /\ \E i \in DOMAIN background.tasks :
       /\ heap[background.tasks[i]].task_id = main.full_task_id
       /\ main.full_task_id \notin CachedIds(_tasks)
       /\ main.full_task_id \notin StoredIds(store)

StatisticsKeys ==
  {"timestamp", "total", "completed", "in_progress", "pending", "overdue",
   "high_priority_pending"}

(***************************************************************************)
(* C20.  An exception inside a cycle of background_task_cleanup is caught  *)
(* and dropped: the thread is back at the head of its loop, not at its     *)
(* end; _background_stats is what it was before the cycle (and is never a  *)
(* dict with some of its keys only); and, while _running holds, the thread *)
(* starts another cycle when the next period has passed.                   *)
(***************************************************************************)
C20_FailureDropped ==
  /\ [][ (background.exc = "" /\ background'.exc # "")
         => /\ background'.pc = "wait"
            /\ _background_stats' = _background_stats ]_vars
  /\ [](_background_stats # None => DOMAIN _background_stats = StatisticsKeys)
  /\ (background.exc # "") ~> (background.pc = "get_all" \/ ~_running)

\* A cycle has published statistics, and a later cycle has failed with the
\* TypeError of a due_date that is no datetime: the statistics are the ones
\* published, of the task of then.
C20_Witness ==
  /\ background.exc = "TypeError"
  /\ background.pc = "wait"
  /\ _running
  /\ _background_stats # None
  /\ Len(_task_list) = 1
  /\ ~IsDatetime(heap[_task_list[1]].due_date)

(***************************************************************************)
(* C21.  The background thread can be stopped: once _running is False the  *)
(* thread comes to the end of background_task_cleanup (the scheduler being *)
(* fair to it).  A wait that ends with _running False is followed by the   *)
(* end of the loop, and with _running False no cycle is started: the       *)
(* thread finishes at most the cycle that had passed the test already.     *)
(***************************************************************************)
C21_BackgroundStops ==
  /\ (~_running) ~> (background.pc = "done")
  /\ [][ (background.pc = "wait" /\ ~_running /\ background' # background)
         => background'.pc = "done" ]_vars
  /\ [][ (~_running /\ background.pc # "get_all") => background'.pc # "get_all" ]_vars
  /\ [][ ~_running => ~_running' ]_vars

\* The thread has ended after _running was set to False, with the
\* statistics of a cycle published.
C21_Witness ==
  /\ ~_running
  /\ background.pc = "done"
  /\ _background_stats # None
  /\ Len(_task_list) = 1

\* update_task is given a field at least.
SomeField(inp) == \E f \in DOMAIN inp : inp[f] # None

(***************************************************************************)
(* C22.  add_task, update_task with a field at least, delete_task of a     *)
(* task it found and load_tasks_from_db test the connection right before   *)
(* their operation on the collection.  When the test fails the method      *)
(* raises an exception of a class of its own, which is neither the class   *)
(* it raises when the operation itself fails nor the class of a            *)
(* validation error, and the collection is as it was.                      *)
(***************************************************************************)
C22_ProbeFailureOwnKind ==
  /\ \A inp \in AddInputs, draw \in Draws :
       ~InvalidAddInput(inp)
       => LET r == add_task(store, _tasks, _task_list, heap, inp,
                            draw.task_id, draw.now, "down")
              e == add_task(store, _tasks, _task_list, heap, inp,
                            draw.task_id, draw.now, "error")
          IN  r.exc \notin {"", "ValueError", e.exc} /\ r.store = store
  /\ \A task_id \in Queries, inp \in UpdateInputs :
       (get_task(_tasks, task_id) # None /\ SomeField(inp) /\ ~InvalidUpdateInput(inp))
       => LET r == update_task(store, _tasks, _task_list, heap, task_id, inp, "down")
              e == update_task(store, _tasks, _task_list, heap, task_id, inp, "error")
          IN  r.exc \notin {"", "ValueError", e.exc} /\ r.store = store
  /\ \A task_id \in Queries :
       get_task(_tasks, task_id) # None
       => LET r == delete_task(store, _tasks, _task_list, heap, task_id, "down")
              e == delete_task(store, _tasks, _task_list, heap, task_id, "error")
          IN  r.exc \notin {"", "ValueError", e.exc} /\ r.store = store
  /\ \A now \in Times :
       LET r == load_tasks_from_db(store, _tasks, _task_list, heap, "down", now)
           e == load_tasks_from_db(store, _tasks, _task_list, heap, "error", now)
       IN  r.exc \notin {"", "ValueError", e.exc} /\ r.store = store

(***************************************************************************)
(* C23.  When the collection holds a document with the id add_task drew,   *)
(* add_task raises an exception of a class of its own, which is neither    *)
(* the class of a validation error nor the class of a failed operation on  *)
(* the collection; the cache and the collection are as they were.          *)
(***************************************************************************)
C23_DuplicateIdOwnKind ==
  \A inp \in AddInputs, draw \in Draws :
    (~InvalidAddInput(inp) /\ DocsWithId(store, draw.task_id) # {})
    => LET r == add_task(store, _tasks, _task_list, heap, inp,
                         draw.task_id, draw.now, "ok")
           v == add_task(store, _tasks, _task_list, heap,
                         [inp EXCEPT !.title = <<" ">>], draw.task_id, draw.now, "ok")
           e == add_task(store, _tasks, _task_list, heap, inp,
                         draw.task_id, draw.now, "error")
       IN  /\ r.exc \notin {"", v.exc, e.exc}
           /\ r.store = store
           /\ SameCache(r, _tasks, _task_list, heap)

\* The time add_task drew with this id: in Draws each id comes with one time.
CreatedAt(task_id) == (CHOOSE draw \in Draws : draw.task_id = task_id).now

(***************************************************************************)
(* C24.  The task_id and the created_at of a task are the ones add_task    *)
(* gave it, in the cache and in the collection, whatever update_task,      *)
(* mark_completed and load_tasks_from_db calls came after (the tasks        *)
(* filter_tasks and sort_tasks return are the cached objects themselves);  *)
(* and no two cached tasks have one id.                                    *)
(***************************************************************************)
C24_IdAndCreatedAtFixed ==
  /\ \A i \in DOMAIN _tasks :
       /\ heap[_tasks[i].val].task_id = _tasks[i].key
       /\ heap[_tasks[i].val].created_at = CreatedAt(_tasks[i].key)
  /\ \A i \in DOMAIN _task_list :
       /\ heap[_task_list[i]].task_id \in CachedIds(_tasks)
       /\ heap[_task_list[i]].created_at = CreatedAt(heap[_task_list[i]].task_id)
  /\ \A i \in DOMAIN store : store[i].created_at = CreatedAt(store[i].task_id)
  /\ \A i, j \in DOMAIN _task_list :
       heap[_task_list[i]].task_id = heap[_task_list[j]].task_id => i = j
  /\ \A i, j \in DOMAIN _tasks : _tasks[i].key = _tasks[j].key => i = j
  /\ \A crit \in FilterInputs :
       LET r == filter_tasks(_task_list, heap, crit)
       IN  r.ok => Range(r.val) \subseteq Range(_task_list)
  /\ \A sort_by \in Range(valid_sort_fields) :
       LET r == sort_tasks(_task_list, heap, sort_by, FALSE)
       IN  r.ok /\ Range(r.val) = Range(_task_list)

\* load_tasks_from_db has succeeded over two tasks, the second of them
\* created at a later time than the first and Completed since.
C24_Witness ==
  /\ call.op = "load_tasks_from_db"
  /\ call.ret = "True"
  /\ Len(_task_list) = 2
  /\ heap[_task_list[1]].created_at < heap[_task_list[2]].created_at
  /\ heap[_task_list[2]].status = "Completed"

(***************************************************************************)
(* C25.  In every state the TaskManager reaches from an empty collection   *)
(* by add_task, update_task, mark_completed, delete_task and               *)
(* load_tasks_from_db, the calls that raise among them, every cached task  *)
(* has a title that is not empty and has no blanks around it, a priority   *)
(* of Low, Medium, High and a status of Pending, In Progress, Completed.   *)
(***************************************************************************)
C25_CachedTasksValid ==
  \A ref \in CacheRefs(_tasks, _task_list) :
    /\ ref \in DOMAIN heap
    /\ heap[ref].title # <<>>
    /\ Strip(heap[ref].title) = heap[ref].title
    /\ heap[ref].priority \in Range(VALID_PRIORITIES)
    /\ heap[ref].status \in Range(VALID_STATUSES)

\* An update_task has raised for its priority after it had put its title
\* on the cached task: the task has the new title and a priority as before.
C25_Witness ==
  /\ call.op = "update_task"
  /\ call.exc = "ValueError"
  /\ \E i \in DOMAIN _task_list :
       /\ heap[_task_list[i]].title = <<"z">>
       /\ heap[_task_list[i]].priority = "High"
       /\ StoredDoc(store, heap[_task_list[i]].task_id).title = <<"x">>

(***************************************************************************)
(* C26.  Round trip: the Task that from_dict makes of the dict to_dict     *)
(* made of a Task has the task_id, title, description, due_date,           *)
(* priority, status and created_at of that Task.                           *)
(***************************************************************************)
C26_RoundTrip ==
  DOMAIN heap = {1, 2} => \A f \in TaskFields : heap[2][f] = heap[1][f]

\* from_dict has made a Task of the dict of a Completed task that was made
\* with its created_at given, at a later time.
C26_Witness ==
  /\ call.op = "from_dict"
  /\ DOMAIN heap = {1, 2}
  /\ heap[1].status = "Completed"
  /\ heap[1].created_at = 1
  /\ store # <<>>
  /\ DOMAIN store[1] = TaskFields

(***************************************************************************)
(* C27.  No Task is made with an empty title, with a due_date that is no   *)
(* datetime or with a priority other than Low, Medium, High: Task()        *)
(* rejects such arguments.  A Task made with no status is Pending.         *)
(***************************************************************************)
C27_ConstructorRejects ==
  /\ \A ref \in DOMAIN heap :
       /\ heap[ref].title # <<>>
       /\ IsDatetime(heap[ref].due_date)
       /\ heap[ref].priority \in Range(VALID_PRIORITIES)
  /\ \A args \in TaskArgs, now \in Times :
       args.status = None
       => TaskInit(<<"a","b">>, args.title, args.description, args.due_date,
                   args.priority, args.status, args.created_at, now).status = "Pending"

\* The fields of update_task in the order of its blocks; whether the value
\* given for a field is one its block raises for; and the value the block
\* assigns: the title and the description without the blanks around them,
\* the priority and the status as the enum spells them.
FieldOrder == <<"title", "description", "due_date", "priority", "status">>
FieldBad(f, v) ==
  CASE f = "title" -> BlankText(v)
    [] f = "description" -> FALSE
    [] f = "due_date" -> ~IsDatetime(v)
    [] f = "priority" -> ~NamesOneOf(v, VALID_PRIORITIES)
    [] f = "status" -> ~NamesOneOf(v, VALID_STATUSES)
Spelled(v, enum) ==
  enum[CHOOSE i \in DOMAIN enum : Lower(EnumText[enum[i]]) = Lower(Strip(v))]
Normal(f, v) ==
  CASE f = "title" -> Strip(v)
    [] f = "description" -> Strip(v)
    [] f = "due_date" -> v
    [] f = "priority" -> Spelled(v, VALID_PRIORITIES)
    [] f = "status" -> Spelled(v, VALID_STATUSES)

\* The place in that order of the first field given that does not validate,
\* 0 when every field given validates.
FirstBad(inp) ==
  LET bad == {i \in DOMAIN FieldOrder :
                inp[FieldOrder[i]] # None /\ FieldBad(FieldOrder[i], inp[FieldOrder[i]][1])}
  IN  IF bad = {} THEN 0 ELSE CHOOSE i \in bad : \A j \in bad : i <= j

(***************************************************************************)
(* C28.  update_task validates and assigns the fields it is given one     *)
(* after the other on the cached task, in the order title, description,    *)
(* due_date, priority, status.  When a field does not validate the method  *)
(* raises; the fields given that come before it have their new values on   *)
(* the cached task, that field and the ones after it have their old ones,  *)
(* and the collection has the old values of all of them: nothing is put    *)
(* back.                                                                   *)
(***************************************************************************)
C28_PartialUpdateStays ==
  \A task_id \in Queries, inp \in UpdateInputs, env \in StoreEnvs :
    LET r == update_task(store, _tasks, _task_list, heap, task_id, inp, env)
        task == get_task(_tasks, task_id)
        k == FirstBad(inp)
    IN  (task # None /\ k > 0)
        => /\ r.exc \in {"ValueError", "TypeError"}
           /\ r.store = store
           /\ r._tasks = _tasks /\ r._task_list = _task_list
           /\ \A i \in DOMAIN FieldOrder :
                r.heap[task[1]][FieldOrder[i]] =
                  IF i < k /\ inp[FieldOrder[i]] # None
                  THEN Normal(FieldOrder[i], inp[FieldOrder[i]][1])
                  ELSE heap[task[1]][FieldOrder[i]]
           /\ \A ref \in DOMAIN heap \ {task[1]} : r.heap[ref] = heap[ref]

\* update_task has raised for the priority of the second of two cached
\* tasks: that task has the title of the call in the cache and the title
\* from before in the collection, and the first task is as it was.
C28_Witness ==
  /\ call.op = "update_task"
  /\ call.exc = "ValueError"
  /\ call.cause = <<"validation">>
  /\ Len(_task_list) = 2
  /\ heap[_task_list[2]].title = <<"z">>
  /\ StoredDoc(store, heap[_task_list[2]].task_id).title = <<"x">>
  /\ heap[_task_list[1]].title = <<"x">>
  /\ StoredDoc(store, heap[_task_list[1]].task_id) = heap[_task_list[1]]

\* What a record of a task is after the fields given in inp are set on it,
\* each to the value update_task assigns.
WithGiven(rec, inp) ==
  [f \in DOMAIN rec |->
     IF f \in Range(FieldOrder) /\ inp[f] # None THEN Normal(f, inp[f][1]) ELSE rec[f]]

(***************************************************************************)
(* C29.  update_task on a full id or on a prefix changes one task, the    *)
(* one get_task returns for that identifier.  When it returns True the     *)
(* cached task and the document of the collection under the task's full id *)
(* have the fields given, set to the values the validators return, and     *)
(* their other fields as before.  Whatever it returns or raises, every     *)
(* other cached task and every document under another id is as it was,     *)
(* also when the identifier is a prefix of several cached ids.             *)
(***************************************************************************)
C29_UpdateExactlyOne ==
  \A task_id \in Queries, inp \in UpdateInputs, env \in StoreEnvs :
    LET r == update_task(store, _tasks, _task_list, heap, task_id, inp, env)
        task == get_task(_tasks, task_id)
    IN  /\ r._tasks = _tasks /\ r._task_list = _task_list
        /\ DOMAIN r.heap = DOMAIN heap /\ DOMAIN r.store = DOMAIN store
        /\ task = None => r.heap = heap /\ r.store = store
        /\ task # None =>
             LET full_task_id == heap[task[1]].task_id
             IN  /\ \A ref \in DOMAIN heap \ {task[1]} : r.heap[ref] = heap[ref]
                 /\ \A i \in DOMAIN store :
                      store[i].task_id # full_task_id => r.store[i] = store[i]
                 /\ r.ret = "True" =>
                      /\ r.heap[task[1]] = WithGiven(heap[task[1]], inp)
                      /\ \A i \in DOMAIN store :
                           store[i].task_id = full_task_id
                             => r.store[i] = WithGiven(store[i], inp)

\* update_task has returned True with two tasks cached whose ids begin with
\* the same character: one has the title of the call in the cache and in
\* the collection, the other the title it was added with in both.
C29_Witness ==
  /\ call.op = "update_task"
  /\ call.ret = "True"
  /\ Len(_task_list) = 2
  /\ heap[_task_list[1]].task_id[1] = heap[_task_list[2]].task_id[1]
  /\ \E i, j \in DOMAIN _task_list :
       /\ i # j
       /\ heap[_task_list[i]].title = <<"z">>
       /\ StoredDoc(store, heap[_task_list[i]].task_id).title = <<"z">>
       /\ heap[_task_list[j]].title = <<"x">>
       /\ StoredDoc(store, heap[_task_list[j]].task_id).title = <<"x">>

\* The keys the sort takes, the rank of each status, and whether task a
\* comes strictly before task b in the order of a key: by rank for the
\* status, by the titles in lower case, by the time for the two dates.
SortKeys == {"created_at", "due_date", "priority", "status", "title"}
StatusRank(status) ==
  CASE status = "Pending" -> 1
    [] status = "In Progress" -> 2
    [] status = "Completed" -> 3
Before(a, b, sort_by) ==
  CASE sort_by = "status" -> StatusRank(a.status) < StatusRank(b.status)
    [] sort_by = "title" -> StrLess(Lower(a.title), Lower(b.title))
    [] sort_by \in {"created_at", "due_date"} -> a[sort_by] < b[sort_by]

(***************************************************************************)
(* C30.  sort_tasks takes the keys created_at, due_date, priority, status  *)
(* and title and no other: for any other key it raises and returns no      *)
(* list.  For a key it takes it returns the tasks it was given, each once; *)
(* by status they are in the order Pending, In Progress, Completed, by     *)
(* title in the order of the titles without regard to case, by created_at  *)
(* and by due_date in the order of time, and with reverse in the opposite  *)
(* order.                                                                  *)
(***************************************************************************)
C30_SortKeysAndOrders ==
  \A tasks \in SortInputs, sort_by \in SortFields, reverse \in BOOLEAN :
    LET r == sort_tasks(tasks, heap, sort_by, reverse)
    IN  /\ r.ok <=> sort_by \in SortKeys
        /\ ~r.ok => r.exc = "ValueError" /\ r.val = <<>>
        /\ r.ok =>
             /\ r.exc = ""
             /\ Len(r.val) = Len(tasks)
             /\ \A t \in Range(tasks) :
                  Cardinality({i \in DOMAIN r.val : r.val[i] = t})
                    = Cardinality({i \in DOMAIN tasks : tasks[i] = t})
             /\ sort_by # "priority" =>
                  \A i, j \in DOMAIN r.val :
                    i < j => IF reverse
                             THEN ~Before(heap[r.val[i]], heap[r.val[j]], sort_by)
                             ELSE ~Before(heap[r.val[j]], heap[r.val[i]], sort_by)

\* sort_tasks has raised for a key it does not take, and the caller holds
\* the list of an earlier sort of the four cached tasks by title: the two
\* titles that are an a before the two that are a b, whatever their case.
C30_Witness ==
  /\ call.op = "sort_tasks"
  /\ call.ret = ""
  /\ call.exc = "ValueError"
  /\ Len(_task_list) = 4
  /\ held # None
  /\ Len(held.items) = 4
  /\ [i \in 1..4 |-> heap[held.items[i]].title] = <<"A", "a", "b", "B">>

(***************************************************************************)
(* C31.  With one thread the dict and the list do not diverge: after any   *)
(* sequence of load_tasks_from_db, add_task, update_task, mark_completed   *)
(* and delete_task, whether they return or raise, the list get_all_tasks   *)
(* returns holds the values of the dict in the order of its keys, the id   *)
(* of each is its key, no id is there twice, and get_task_count is the     *)
(* size of both.                                                           *)
(***************************************************************************)
C31_DictAndListAgree ==
  LET tasks == get_all_tasks(_task_list)
  IN  /\ Len(tasks) = Len(_tasks)
      /\ get_task_count(_task_list) = Len(_tasks)
      /\ \A i \in DOMAIN tasks :
           /\ tasks[i] = _tasks[i].val
           /\ heap[tasks[i]].task_id = _tasks[i].key
      /\ \A i, j \in DOMAIN tasks :
           heap[tasks[i]].task_id = heap[tasks[j]].task_id => i = j

\* delete_task has taken the first of two cached tasks away: the dict and
\* the list hold the one that was added second.
C31_Witness ==
  /\ call.op = "delete_task"
  /\ call.ret = "True"
  /\ Len(_task_list) = 1
  /\ Len(_tasks) = 1
  /\ _task_list[1] = 2
  /\ _tasks[1].val = 2
  /\ Len(store) = 1

(***************************************************************************)
(* C32.  Every dict background_task_cleanup assigns to _background_stats   *)
(* has total = completed + in_progress + pending, also when the main       *)
(* thread assigns the status of a task (update_task, mark_completed)       *)
(* between the passes that count the list of the cycle.                    *)
(***************************************************************************)
C32_StatisticsAddUp ==
  _background_stats # None
    => _background_stats.total
         = _background_stats.completed + _background_stats.in_progress
             + _background_stats.pending

(***************************************************************************)
(* C33.  A cycle of background_task_cleanup whose get_all_tasks returns an *)
(* empty list assigns nothing: the thread is back at its wait and          *)
(* _background_stats is the dict of an earlier cycle.  The only step that  *)
(* assigns _background_stats is the last one of a cycle over a list that   *)
(* was not empty, and the total it assigns is the length of that list: so  *)
(* once every task is deleted the total stays the positive number it was   *)
(* for every cycle until a task is in the list again.                      *)
(***************************************************************************)
C33_EmptyCyclePublishesNothing ==
  [][ /\ (background.pc = "get_all" /\ background' # background /\ _task_list = <<>>)
         => /\ background' = Waiting
            /\ _background_stats' = _background_stats
      /\ _background_stats' # _background_stats
         => /\ background.pc = "publish"
            /\ background.tasks # <<>>
            /\ _background_stats'.total = Len(background.tasks)
            /\ _background_stats'.total > 0 ]_vars

\* The one task is deleted from the list, the map and the collection, the
\* dict of an earlier cycle has a total of 1, and the background thread is
\* about to call get_all_tasks.
C33_Witness ==
  /\ _task_list = <<>>
  /\ _tasks = <<>>
  /\ store = <<>>
  /\ main = AtMenu
  /\ _background_stats # None
  /\ _background_stats.total = 1
  /\ background.pc = "get_all"

(***************************************************************************)
(* C34.  Every id starts with the empty string: with a task in the cache,  *)
(* get_task("") is the first task of get_all_tasks, delete_task("") does   *)
(* not return False and, when the handler deletes, takes that task out of  *)
(* the collection, the map and the list, and update_task("", ...) does not *)
(* return False and, when it returns True, has set the fields given on     *)
(* that task.                                                              *)
(***************************************************************************)
C34_EmptyIdIsFirstTask ==
  get_all_tasks(_task_list) # <<>>
    => LET first == get_all_tasks(_task_list)[1]
           full_task_id == heap[first].task_id
       IN  /\ get_task(_tasks, <<>>) = Some(first)
           /\ \A env \in StoreEnvs :
                LET r == delete_task(store, _tasks, _task_list, heap, <<>>, env)
                IN  /\ r.ret # "False"
                    /\ env = "ok"
                         => /\ r.ret = "True"
                            /\ full_task_id \notin CachedIds(r._tasks)
                            /\ full_task_id \notin ListIds(r._task_list, r.heap)
                            /\ full_task_id \notin StoredIds(r.store)
                            /\ Len(r._task_list) = Len(_task_list) - 1
           /\ \A inp \in UpdateInputs, env \in StoreEnvs :
                LET r == update_task(store, _tasks, _task_list, heap, <<>>, inp, env)
                IN  /\ r.ret # "False"
                    /\ r.ret = "True" => r.heap[first] = WithGiven(heap[first], inp)
                    /\ (env = "ok" /\ FirstBad(inp) = 0) => r.ret = "True"

\* update_task has returned True with two tasks cached: the first has the
\* five fields of the call in the cache and in the collection, the second
\* the fields it was added with.
C34_Witness ==
  /\ call.op = "update_task"
  /\ call.ret = "True"
  /\ Len(_task_list) = 2
  /\ get_task(_tasks, <<>>) = Some(_task_list[1])
  /\ heap[_task_list[1]].title = <<"z">>
  /\ heap[_task_list[1]].priority = "Medium"
  /\ heap[_task_list[1]].status = "In Progress"
  /\ StoredDoc(store, heap[_task_list[1]].task_id) = heap[_task_list[1]]
  /\ heap[_task_list[2]].title = <<"x">>
  /\ heap[_task_list[2]].status = "Pending"

\* update_task with none of the five fields given.
NoFields == UpdateInput(None, None, None, None, None)

(***************************************************************************)
(* C35.  update_task of a task that is found, with no field given, returns *)
(* True and leaves the cache as it is; it does not call the handler, so    *)
(* is_connected is not asked and nothing is written: the collection is as  *)
(* it was and the call returns True whatever the state of the server, also *)
(* when the handler is not connected.                                      *)
(***************************************************************************)
C35_EmptyUpdateTouchesNothing ==
  \A task_id \in Queries, env \in StoreEnvs :
    LET r == update_task(store, _tasks, _task_list, heap, task_id, NoFields, env)
    IN  get_task(_tasks, task_id) # None
          => /\ r.ret = "True"
             /\ r.exc = ""
             /\ r.heap = heap
             /\ r._tasks = _tasks
             /\ r._task_list = _task_list
             /\ r.store = store

\* update_task has returned True and the one cached task has the fields it
\* was added with, which every update_task with a field given would have
\* changed: the call was the one with no field.
C35_Witness ==
  /\ call.op = "update_task"
  /\ call.ret = "True"
  /\ Len(_task_list) = 1
  /\ heap[_task_list[1]].title = <<"x">>
  /\ heap[_task_list[1]].status = "Pending"
  /\ heap[_task_list[1]].priority = "High"
  /\ StoredDoc(store, heap[_task_list[1]].task_id) = heap[_task_list[1]]

ReadOps == {"get_task", "get_all_tasks", "filter_tasks", "sort_tasks", "get_task_count"}

(***************************************************************************)
(* C36.  get_task, get_all_tasks, filter_tasks, sort_tasks and             *)
(* get_task_count read the cache and nothing else.  None of them calls the *)
(* handler: the collection is as it was, and what they raise, if anything, *)
(* is the ValueError of a validator or of the sort key, whatever the state *)
(* of the server.  None of them changes the dict, the list, their order or *)
(* a field of a cached task, and sort_tasks leaves the list it was passed  *)
(* as it was.                                                              *)
(***************************************************************************)
C36_ReadsArePure ==
  [][ call'.op \in ReadOps
      => /\ store' = store
         /\ _tasks' = _tasks
         /\ _task_list' = _task_list
         /\ \A ref \in CacheRefs(_tasks, _task_list) :
              ref \in DOMAIN heap' /\ heap'[ref] = heap[ref]
         /\ call'.exc \in {"", "ValueError"}
         /\ call'.cause = <<>>
         /\ call'.op \in {"get_task", "get_all_tasks", "get_task_count"}
              => call'.exc = ""
         /\ (call'.op = "sort_tasks" /\ held # None) => held' = held ]_vars

\* sort_tasks has returned a list, and the list it was passed, which the
\* caller holds, has the four cached tasks in the order of the cache, an
\* order that is sorted by none of the five keys in either direction.
C36_Witness ==
  /\ call.op = "sort_tasks"
  /\ call.ret = "List"
  /\ held # None
  /\ held.items = _task_list
  /\ Len(_task_list) = 4
  /\ [i \in 1..4 |-> heap[_task_list[i]].title] = <<"B", "A", "b", "a">>

(***************************************************************************)
(* C37.  Over every sequence of connect (returning True, or False at any   *)
(* of its statements), disconnect, and the server going down and coming    *)
(* up: when is_connected returns True, _collection is set, so that a       *)
(* method of the handler that is past its is_connected test does not fail  *)
(* on a _collection that is None; and once disconnect has been called      *)
(* is_connected returns False until a connect has returned True.           *)
(***************************************************************************)
C37_ProbeMeansCollection ==
  /\ Probe(_client, server) = "ok" => _collection # None
  /\ call.op = "insert_task" => "AttributeError" \notin Range(call.cause)
  /\ disconnected => Probe(_client, server) = "down"

====
